---- MODULE Spec2Model ----
(***************************************************************************)
(* Model of src/app.py (Spare Parts Ageing dashboard): the load            *)
(* process_excel_to_csv(), which reads today once, derives the month       *)
(* windows and annotates every row with its aging buckets, its purchase    *)
(* month bucket and its dead-stock flag and label; the start-up of the     *)
(* module, which reads the processed CSV back; and the request handlers,   *)
(* which filter the frame read back and answer from it.                    *)
(*                                                                         *)
(* Dates are proleptic Gregorian ordinals, as in Python's datetime.date    *)
(* (date.toordinal()); a cell of the sheet is a record                     *)
(*     [k |-> kind, s |-> text, n |-> number]                              *)
(* with kind "nan" (empty cell: NaN / NaT), "str" (text, a sequence of     *)
(* one-character strings), "ts" (an Excel date cell, read as a Timestamp   *)
(* whose date is the ordinal n) or "num" (a number n).                     *)
(***************************************************************************)
EXTENDS Integers, Sequences, FiniteSets, TLC

VARIABLES
    clock,      \* the wall-clock date, datetime.now().date()
    pc,         \* "start" | "loaded" | "serving" | "exit"
    sheet,      \* the input file: whether it is there and readable, and its columns
    source,     \* the rows of the sheet
    win,        \* today and the month windows of the load (lines 75-80)
    df,         \* the annotated rows written by the load
    output_csv, \* the processed CSV file on disk (line 57)
    served_df,  \* the module's df, read back from the processed CSV (line 1095)
    requests,   \* the filter arguments a client sends
    resp        \* the answer being returned, no_response between requests

vars == <<clock, pc, sheet, source, win, df, output_csv, served_df, requests, resp>>

----------------------------------------------------------------------------
(* The calendar of datetime.date.                                          *)

is_leap(y) == (y % 4 = 0) /\ ((y % 100 # 0) \/ (y % 400 = 0))

days_before_year(y) ==
    LET p == y - 1 IN p * 365 + (p \div 4) - (p \div 100) + (p \div 400)

DAYS_IN_MONTH == <<31, 28, 31, 30, 31, 30, 31, 31, 30, 31, 30, 31>>

DAYS_BEFORE_MONTH == <<0, 31, 59, 90, 120, 151, 181, 212, 243, 273, 304, 334>>

days_in_month(y, m) == IF m = 2 /\ is_leap(y) THEN 29 ELSE DAYS_IN_MONTH[m]

days_before_month(y, m) ==
    DAYS_BEFORE_MONTH[m] + (IF m > 2 /\ is_leap(y) THEN 1 ELSE 0)

\* datetime.date(y, m, d) accepts exactly these triples (MINYEAR = 1, MAXYEAR = 9999).
valid_ymd(y, m, d) ==
    /\ y >= 1 /\ y <= 9999
    /\ m >= 1 /\ m <= 12
    /\ d >= 1 /\ d <= days_in_month(y, m)

ymd2ord(y, m, d) == days_before_year(y) + days_before_month(y, m) + d

\* The (year, month, day) of an ordinal, by the 400/100/4/1-year cycles.
ord2ymd(ord) ==
    LET n0   == ord - 1
        n400 == n0 \div 146097
        r400 == n0 % 146097
        n100 == r400 \div 36524
        r100 == r400 % 36524
        n4   == r100 \div 1461
        r4   == r100 % 1461
        n1   == r4 \div 365
        n    == r4 % 365
        year == n400 * 400 + 1 + n100 * 100 + n4 * 4 + n1
    IN  IF n1 = 4 \/ n100 = 4
        THEN <<year - 1, 12, 31>>
        ELSE LET leap  == n1 = 3 /\ (n4 # 24 \/ n100 = 3)
                 mon0  == (n + 50) \div 32
                 prec0 == DAYS_BEFORE_MONTH[mon0] + (IF mon0 > 2 /\ leap THEN 1 ELSE 0)
                 month == IF prec0 > n THEN mon0 - 1 ELSE mon0
                 prec  == IF prec0 > n
                          THEN prec0 - (DAYS_IN_MONTH[month]
                                        + (IF month = 2 /\ leap THEN 1 ELSE 0))
                          ELSE prec0
             IN  <<year, month, n - prec + 1>>

year_of(ord)  == ord2ymd(ord)[1]
month_of(ord) == ord2ymd(ord)[2]
day_of(ord)   == ord2ymd(ord)[3]

\* date.replace(day=1)
replace_day1(ord) ==
    LET ymd == ord2ymd(ord) IN ymd2ord(ymd[1], ymd[2], 1)

\* date.replace(year=date.year - 1) raises ValueError when the day does not
\* exist in the previous year (29 February).
replace_year_raises(ord) ==
    LET ymd == ord2ymd(ord) IN ~valid_ymd(ymd[1] - 1, ymd[2], ymd[3])

replace_year_back(ord) ==
    LET ymd == ord2ymd(ord) IN ymd2ord(ymd[1] - 1, ymd[2], ymd[3])

----------------------------------------------------------------------------
(* Cells and text.                                                         *)

None == 0   \* Python's None where a date (an ordinal >= 1) is expected

NaN == [k |-> "nan", s |-> <<>>, n |-> 0]
Str(chars) == [k |-> "str", s |-> chars, n |-> 0]
Timestamp(ord) == [k |-> "ts", s |-> <<>>, n |-> ord]
Num(v) == [k |-> "num", s |-> <<>>, n |-> v]

DIGITS == <<"0", "1", "2", "3", "4", "5", "6", "7", "8", "9">>

DIGIT_VALUE ==
    [c \in {DIGITS[i] : i \in 1..10} |-> (CHOOSE i \in 1..10 : DIGITS[i] = c) - 1]

is_digit(c) == c \in DOMAIN DIGIT_VALUE

digit_val(c) == DIGIT_VALUE[c]

two_digits(v) == <<DIGITS[((v \div 10) % 10) + 1], DIGITS[(v % 10) + 1]>>

four_digits(v) == two_digits(v \div 100) \o two_digits(v % 100)

\* str() of a Timestamp: 'YYYY-MM-DD 00:00:00'.
isoformat(ord) ==
    LET ymd == ord2ymd(ord)
    IN  four_digits(ymd[1]) \o <<"-">> \o two_digits(ymd[2]) \o <<"-">>
            \o two_digits(ymd[3]) \o <<" ", "0", "0", ":", "0", "0", ":", "0", "0">>

\* str() of a whole number.
RECURSIVE digits_of(_)
digits_of(v) ==
    IF v < 10 THEN <<DIGITS[v + 1]>>
    ELSE digits_of(v \div 10) \o <<DIGITS[(v % 10) + 1]>>

num_text(v) == IF v < 0 THEN <<"-">> \o digits_of(0 - v) ELSE digits_of(v)

\* str(cell)
str(cell) ==
    CASE cell.k = "str" -> cell.s
      [] cell.k = "ts"  -> isoformat(cell.n)
      [] cell.k = "num" -> num_text(cell.n)
      [] OTHER          -> <<"n", "a", "n">>

\* pd.isna(cell)
isna(cell) == cell.k = "nan"

\* s[:10]
first10(s) == SubSeq(s, 1, IF Len(s) < 10 THEN Len(s) ELSE 10)

is_space(c) == c = " "

\* s.strip()
strip(s) ==
    IF \A i \in 1..Len(s) : is_space(s[i])
    THEN <<>>
    ELSE LET lo == CHOOSE i \in 1..Len(s) :
                       ~is_space(s[i]) /\ \A j \in 1..(i - 1) : is_space(s[j])
             hi == CHOOSE i \in 1..Len(s) :
                       ~is_space(s[i]) /\ \A j \in (i + 1)..Len(s) : is_space(s[j])
         IN  SubSeq(s, lo, hi)

\* The guard shared by parse_date and the three classifiers:
\* pd.isna(x) or x == "-" or str(x).strip() == "".
is_blank(cell) ==
    \/ isna(cell)
    \/ (cell.k = "str" /\ cell.s = <<"-">>)
    \/ strip(str(cell)) = <<>>

----------------------------------------------------------------------------
(* datetime.strptime for the five formats of parse_date.                   *)

\* %d : 3[0-1] | [1-2]\d | 0[1-9] | [1-9] | ' '[1-9]
match_d(tok) ==
    \/ /\ Len(tok) = 2
       /\ \/ tok[1] = "3" /\ tok[2] \in {"0", "1"}
          \/ tok[1] \in {"1", "2"} /\ is_digit(tok[2])
          \/ tok[1] \in {"0", " "} /\ is_digit(tok[2]) /\ tok[2] # "0"
    \/ Len(tok) = 1 /\ is_digit(tok[1]) /\ tok[1] # "0"

\* %m : 1[0-2] | 0[1-9] | [1-9]
match_m(tok) ==
    \/ /\ Len(tok) = 2
       /\ \/ tok[1] = "1" /\ tok[2] \in {"0", "1", "2"}
          \/ tok[1] = "0" /\ is_digit(tok[2]) /\ tok[2] # "0"
    \/ Len(tok) = 1 /\ is_digit(tok[1]) /\ tok[1] # "0"

\* %Y : \d\d\d\d
match_Y(tok) == Len(tok) = 4 /\ \A i \in 1..4 : is_digit(tok[i])

\* int() of a matched field: digits, after at most one leading blank.
RECURSIVE int_from(_, _, _)
int_from(tok, i, acc) ==
    IF i > Len(tok) THEN acc
    ELSE IF is_space(tok[i]) THEN int_from(tok, i + 1, acc)
    ELSE int_from(tok, i + 1, 10 * acc + digit_val(tok[i]))

int_of(tok) == int_from(tok, 1, 0)

\* The three fields of s around the separator sep, or <<>> when s does not
\* hold exactly two separators.
fields(s, sep) ==
    LET at == {i \in 1..Len(s) : s[i] = sep}
    IN  IF Cardinality(at) # 2 THEN <<>>
        ELSE LET i == CHOOSE a \in at : \A b \in at : a <= b
                 j == CHOOSE a \in at : \A b \in at : a >= b
             IN  <<SubSeq(s, 1, i - 1), SubSeq(s, i + 1, j - 1),
                   SubSeq(s, j + 1, Len(s))>>

\* strptime(s, fmt).date() for fmt = <<sep, order>>, order naming the place
\* of day, month and year among the three fields; None when it raises.
strptime(s, sep, di, mi, yi) ==
    LET f == fields(s, sep)
    IN  IF f = <<>> THEN None
        ELSE IF ~(match_d(f[di]) /\ match_m(f[mi]) /\ match_Y(f[yi])) THEN None
        ELSE LET y == int_of(f[yi])
                 m == int_of(f[mi])
                 d == int_of(f[di])
             IN  IF valid_ymd(y, m, d) THEN ymd2ord(y, m, d) ELSE None

\* date_formats with '%m/%d/%Y' tried before '%d/%m/%Y'.
date_formats_month_first ==
    << <<"/", 2, 1, 3>>, <<"-", 1, 2, 3>>, <<"-", 3, 2, 1>>,
       <<"/", 1, 2, 3>>, <<".", 1, 2, 3>> >>

\* date_formats = ['%d/%m/%Y', '%d-%m-%Y', '%Y-%m-%d', '%m/%d/%Y', '%d.%m.%Y']
date_formats ==
    << <<"/", 1, 2, 3>>, <<"-", 1, 2, 3>>, <<"-", 3, 2, 1>>,
       <<"/", 2, 1, 3>>, <<".", 1, 2, 3>> >>

try_format(s, i) ==
    strptime(s, date_formats[i][1], date_formats[i][2], date_formats[i][3],
             date_formats[i][4])

\* for fmt in date_formats: try: return strptime(...) except: continue
RECURSIVE first_format(_, _)
first_format(s, i) ==
    IF i > Len(date_formats) THEN None
    ELSE LET r == try_format(s, i)
         IN  IF r # None THEN r ELSE first_format(s, i + 1)

parse_date(date_str) ==
    IF is_blank(date_str) THEN None
    ELSE first_format(strip(first10(str(date_str))), 1)

----------------------------------------------------------------------------
(* The period windows of the load, derived once from today (lines 75-80)   *)
(* and read by the three classifiers, which are closures over them.        *)

\* periods with last_to_last_month_end = last_month_start, the day not stepped
\* back.
periods_no_step_back(t) ==
    LET cms   == replace_day1(t)
        lme   == cms - 1
        lms   == replace_day1(lme)
        ltlme == lms
        ltlms == replace_day1(ltlme)
    IN  [today                    |-> t,
         current_month_start      |-> cms,
         last_month_end           |-> lme,
         last_month_start         |-> lms,
         last_to_last_month_end   |-> ltlme,
         last_to_last_month_start |-> ltlms]

periods(t) ==
    LET cms   == replace_day1(t)
        lme   == cms - 1
        lms   == replace_day1(lme)
        ltlme == lms - 1
        ltlms == replace_day1(ltlme)
    IN  [today                    |-> t,
         current_month_start      |-> cms,
         last_month_end           |-> lme,
         last_month_start         |-> lms,
         last_to_last_month_end   |-> ltlme,
         last_to_last_month_start |-> ltlms]

\* Before the load has read the clock.
no_periods ==
    [today                    |-> None,
     current_month_start      |-> None,
     last_month_end           |-> None,
     last_month_start         |-> None,
     last_to_last_month_end   |-> None,
     last_to_last_month_start |-> None]

----
(* The classifiers of the load; w holds today and the windows they close   *)
(* over.                                                                   *)

\* aging_label with the 180-day bound exclusive ('<' for '<=').
aging_label_open_180(days_diff) ==
    IF days_diff < 0 THEN "0 to 90 days"
    ELSE IF days_diff <= 90 THEN "0 to 90 days"
    ELSE IF days_diff < 180 THEN "91 to 180 days"
    ELSE IF days_diff <= 365 THEN "181 to 365 days"
    ELSE IF days_diff <= 730 THEN "366 to 730 days"
    ELSE "730 and above"

\* aging_label with a future date sent to the oldest bucket.
aging_label_future_oldest(days_diff) ==
    IF days_diff < 0 THEN "730 and above"
    ELSE IF days_diff <= 90 THEN "0 to 90 days"
    ELSE IF days_diff <= 180 THEN "91 to 180 days"
    ELSE IF days_diff <= 365 THEN "181 to 365 days"
    ELSE IF days_diff <= 730 THEN "366 to 730 days"
    ELSE "730 and above"

\* aging_label with the 90-day bound exclusive ('<' for '<=').
aging_label_open_90(days_diff) ==
    IF days_diff < 0 THEN "0 to 90 days"
    ELSE IF days_diff < 90 THEN "0 to 90 days"
    ELSE IF days_diff <= 180 THEN "91 to 180 days"
    ELSE IF days_diff <= 365 THEN "181 to 365 days"
    ELSE IF days_diff <= 730 THEN "366 to 730 days"
    ELSE "730 and above"

\* The threshold chain of categorize_aging on days_diff = (today - date).days.
aging_label(days_diff) ==
    IF days_diff < 0 THEN "0 to 90 days"
    ELSE IF days_diff <= 90 THEN "0 to 90 days"
    ELSE IF days_diff <= 180 THEN "91 to 180 days"
    ELSE IF days_diff <= 365 THEN "181 to 365 days"
    ELSE IF days_diff <= 730 THEN "366 to 730 days"
    ELSE "730 and above"

categorize_aging(date_str, w) ==
    IF is_blank(date_str) THEN "730 and above"
    ELSE LET date_obj == parse_date(date_str)
         IN  IF date_obj = None THEN "730 and above"
             ELSE aging_label(w.today - date_obj)

\* month_fallback_label with the one-year bound of the copy at 360 days.
month_fallback_label_360(days_diff) ==
    IF days_diff < 0 THEN "Current Month"
    ELSE IF days_diff <= 90 THEN "0 to 90 days"
    ELSE IF days_diff <= 180 THEN "91 to 180 days"
    ELSE IF days_diff <= 360 THEN "181 to 365 days"
    ELSE IF days_diff <= 730 THEN "366 to 730 days"
    ELSE "730 and above"

\* The else branch of categorize_by_month (lines 130-142).
month_fallback_label(days_diff) ==
    IF days_diff < 0 THEN "Current Month"
    ELSE IF days_diff <= 90 THEN "0 to 90 days"
    ELSE IF days_diff <= 180 THEN "91 to 180 days"
    ELSE IF days_diff <= 365 THEN "181 to 365 days"
    ELSE IF days_diff <= 730 THEN "366 to 730 days"
    ELSE "730 and above"

\* categorize_by_month with the first day of the month left out of the current
\* month ('>' for '>=').
categorize_by_month_after_start(date_str, w) ==
    IF is_blank(date_str) THEN "730 and above"
    ELSE LET date_obj == parse_date(date_str)
         IN  IF date_obj = None THEN "730 and above"
             ELSE IF date_obj > w.current_month_start THEN "Current Month"
             ELSE IF w.last_month_start <= date_obj /\ date_obj <= w.last_month_end
                  THEN "Last Month"
             ELSE IF /\ w.last_to_last_month_start <= date_obj
                     /\ date_obj <= w.last_to_last_month_end
                  THEN "Last to Last Month"
             ELSE month_fallback_label(w.today - date_obj)

categorize_by_month(date_str, w) ==
    IF is_blank(date_str) THEN "730 and above"
    ELSE LET date_obj == parse_date(date_str)
         IN  IF date_obj = None THEN "730 and above"
             ELSE IF date_obj >= w.current_month_start THEN "Current Month"
             ELSE IF w.last_month_start <= date_obj /\ date_obj <= w.last_month_end
                  THEN "Last Month"
             ELSE IF /\ w.last_to_last_month_start <= date_obj
                     /\ date_obj <= w.last_to_last_month_end
                  THEN "Last to Last Month"
             ELSE month_fallback_label(w.today - date_obj)

\* float(text): the value of an integer literal (optional sign, surrounding
\* blanks allowed); any other text of the input sets raises ValueError.
is_int_text(s) ==
    LET b == strip(s)
        d == IF b # <<>> /\ b[1] \in {"-", "+"} THEN Tail(b) ELSE b
    IN  d # <<>> /\ \A i \in 1..Len(d) : is_digit(d[i])

int_text_value(s) ==
    LET b == strip(s)
    IN  IF b[1] = "-" THEN -int_of(Tail(b))
        ELSE IF b[1] = "+" THEN int_of(Tail(b))
        ELSE int_of(b)

\* stock = float(stock_qty) if not pd.isna(stock_qty) else 0; except: stock = 0
stock_value(stock_qty) ==
    CASE isna(stock_qty)    -> 0
      [] stock_qty.k = "num" -> stock_qty.n
      [] stock_qty.k = "str" ->
            IF is_int_text(stock_qty.s) THEN int_text_value(stock_qty.s) ELSE 0
      [] OTHER               -> 0   \* float(Timestamp) raises TypeError

\* issue_days_diff with an unparseable issue date counted as issued today.
issue_days_diff_unparsed(last_issue_str, w) ==
    IF is_blank(last_issue_str) THEN 999999
    ELSE LET issue_date_obj == parse_date(last_issue_str)
         IN  IF issue_date_obj = None THEN 0 ELSE w.today - issue_date_obj

\* issue_days_diff of identify_dead_stock (lines 159-170).
issue_days_diff(last_issue_str, w) ==
    IF is_blank(last_issue_str) THEN 999999
    ELSE LET issue_date_obj == parse_date(last_issue_str)
         IN  IF issue_date_obj = None THEN 999999 ELSE w.today - issue_date_obj

\* dead_stock_month with the as-on-date end of the current-month window left out
\* of the window ('<' for '<=').
dead_stock_month_open_end(last_purchase_str, w) ==
    IF is_blank(last_purchase_str) THEN "Earlier"
    ELSE LET purchase_date_obj == parse_date(last_purchase_str)
         IN  IF purchase_date_obj = None THEN "Earlier"
             ELSE IF \/ replace_year_raises(w.current_month_start)
                     \/ replace_year_raises(w.today)
                     \/ replace_year_raises(w.last_month_start)
                     \/ replace_year_raises(w.last_month_end)
                     \/ replace_year_raises(w.last_to_last_month_start)
                     \/ replace_year_raises(w.last_to_last_month_end)
                  THEN "Earlier"
             ELSE LET current_month_last_year_start ==
                          replace_year_back(w.current_month_start)
                      current_month_last_year_end == replace_year_back(w.today)
                      last_month_last_year_start ==
                          replace_year_back(w.last_month_start)
                      last_month_last_year_end ==
                          replace_year_back(w.last_month_end)
                      last_to_last_month_last_year_start ==
                          replace_year_back(w.last_to_last_month_start)
                      last_to_last_month_last_year_end ==
                          replace_year_back(w.last_to_last_month_end)
                  IN  IF /\ current_month_last_year_start <= purchase_date_obj
                         /\ purchase_date_obj < current_month_last_year_end
                      THEN "Current Month"
                      ELSE IF /\ last_month_last_year_start <= purchase_date_obj
                              /\ purchase_date_obj <= last_month_last_year_end
                      THEN "Last Month"
                      ELSE IF /\ last_to_last_month_last_year_start <= purchase_date_obj
                              /\ purchase_date_obj <= last_to_last_month_last_year_end
                      THEN "Last to Last Month"
                      ELSE "Earlier"

\* dead_stock_month with the last-month window tested twice and the
\* last-to-last-month window never (the second elif copied into the third).
dead_stock_month_copied_window(last_purchase_str, w) ==
    IF is_blank(last_purchase_str) THEN "Earlier"
    ELSE LET purchase_date_obj == parse_date(last_purchase_str)
         IN  IF purchase_date_obj = None THEN "Earlier"
             ELSE IF \E b \in {w.current_month_start, w.today, w.last_month_start,
                              w.last_month_end, w.last_to_last_month_start,
                              w.last_to_last_month_end} : replace_year_raises(b)
                  THEN "Earlier"
             ELSE IF /\ replace_year_back(w.current_month_start) <= purchase_date_obj
                     /\ purchase_date_obj <= replace_year_back(w.today)
                  THEN "Current Month"
             ELSE IF /\ replace_year_back(w.last_month_start) <= purchase_date_obj
                     /\ purchase_date_obj <= replace_year_back(w.last_month_end)
                  THEN "Last Month"
             ELSE IF /\ replace_year_back(w.last_month_start) <= purchase_date_obj
                     /\ purchase_date_obj <= replace_year_back(w.last_month_end)
                  THEN "Last to Last Month"
             ELSE "Earlier"

\* The label of a dead record (lines 175-205).  The six year-ago boundaries
\* are all computed before the first comparison; a ValueError of any
\* replace(year=...) is caught by the except of line 204.
dead_stock_month(last_purchase_str, w) ==
    IF is_blank(last_purchase_str) THEN "Earlier"
    ELSE LET purchase_date_obj == parse_date(last_purchase_str)
         IN  IF purchase_date_obj = None THEN "Earlier"
             ELSE IF \/ replace_year_raises(w.current_month_start)
                     \/ replace_year_raises(w.today)
                     \/ replace_year_raises(w.last_month_start)
                     \/ replace_year_raises(w.last_month_end)
                     \/ replace_year_raises(w.last_to_last_month_start)
                     \/ replace_year_raises(w.last_to_last_month_end)
                  THEN "Earlier"
             ELSE LET current_month_last_year_start ==
                          replace_year_back(w.current_month_start)
                      current_month_last_year_end == replace_year_back(w.today)
                      last_month_last_year_start ==
                          replace_year_back(w.last_month_start)
                      last_month_last_year_end ==
                          replace_year_back(w.last_month_end)
                      last_to_last_month_last_year_start ==
                          replace_year_back(w.last_to_last_month_start)
                      last_to_last_month_last_year_end ==
                          replace_year_back(w.last_to_last_month_end)
                  IN  IF /\ current_month_last_year_start <= purchase_date_obj
                         /\ purchase_date_obj <= current_month_last_year_end
                      THEN "Current Month"
                      ELSE IF /\ last_month_last_year_start <= purchase_date_obj
                              /\ purchase_date_obj <= last_month_last_year_end
                      THEN "Last Month"
                      ELSE IF /\ last_to_last_month_last_year_start <= purchase_date_obj
                              /\ purchase_date_obj <= last_to_last_month_last_year_end
                      THEN "Last to Last Month"
                      ELSE "Earlier"

\* identify_dead_stock with the stock test written 'stock < 0'.
identify_dead_stock_zero_stock(last_purchase_str, last_issue_str, last_issue_qty, stock_qty, w) ==
    IF stock_value(stock_qty) < 0
    THEN <<FALSE, "Not Dead Stock (No Stock)">>
    ELSE IF issue_days_diff(last_issue_str, w) <= 365
    THEN <<FALSE, "Not Dead Stock (Recent Issue)">>
    ELSE <<TRUE, dead_stock_month(last_purchase_str, w)>>

\* identify_dead_stock with the recency test written 'issue_days_diff < 365'.
identify_dead_stock_364(last_purchase_str, last_issue_str, last_issue_qty, stock_qty, w) ==
    IF stock_value(stock_qty) <= 0
    THEN <<FALSE, "Not Dead Stock (No Stock)">>
    ELSE IF issue_days_diff(last_issue_str, w) < 365
    THEN <<FALSE, "Not Dead Stock (Recent Issue)">>
    ELSE <<TRUE, dead_stock_month(last_purchase_str, w)>>

\* identify_dead_stock returning the window label with the flag False for a
\* recently issued record.
identify_dead_stock_label(last_purchase_str, last_issue_str, last_issue_qty, stock_qty, w) ==
    IF stock_value(stock_qty) <= 0
    THEN <<FALSE, "Not Dead Stock (No Stock)">>
    ELSE IF issue_days_diff(last_issue_str, w) <= 365
    THEN <<FALSE, dead_stock_month(last_purchase_str, w)>>
    ELSE <<TRUE, dead_stock_month(last_purchase_str, w)>>

\* identify_dead_stock with an issue date in the future counted as no issue.
identify_dead_stock_future_issue(last_purchase_str, last_issue_str, last_issue_qty, stock_qty, w) ==
    IF stock_value(stock_qty) <= 0
    THEN <<FALSE, "Not Dead Stock (No Stock)">>
    ELSE IF /\ issue_days_diff(last_issue_str, w) <= 365
            /\ issue_days_diff(last_issue_str, w) >= 0
    THEN <<FALSE, "Not Dead Stock (Recent Issue)">>
    ELSE <<TRUE, dead_stock_month(last_purchase_str, w)>>

identify_dead_stock(last_purchase_str, last_issue_str, last_issue_qty, stock_qty, w) ==
    IF stock_value(stock_qty) <= 0
    THEN <<FALSE, "Not Dead Stock (No Stock)">>
    ELSE IF issue_days_diff(last_issue_str, w) <= 365
    THEN <<FALSE, "Not Dead Stock (Recent Issue)">>
    ELSE <<TRUE, dead_stock_month(last_purchase_str, w)>>

----------------------------------------------------------------------------
(* The load.                                                               *)

\* pd.to_numeric(column, errors='coerce').fillna(0) on one cell (lines 281,
\* 1449): the number, the value of number text, 0 for anything else.
to_numeric_fillna(cell) ==
    CASE cell.k = "num" -> cell.n
      [] cell.k = "str" -> IF is_int_text(cell.s) THEN int_text_value(cell.s) ELSE 0
      [] OTHER          -> 0

\* One row of the result of df.apply(...) and of the three column
\* assignments of lines 247-269, with the GNDP column made numeric
\* (lines 280-281); cols are the columns of the sheet.
annotated(row, cols, w, dead_stock_results) ==
        [purchase  |-> row.purchase,
         issue     |-> row.issue,
         issue_qty |-> row.issue_qty,
         stock     |-> row.stock,
         gndp      |-> IF "stock gndp" \in cols
                       THEN Num(to_numeric_fillna(row.gndp))
                       ELSE row.gndp,
         location      |-> row.location,
         part_category |-> row.part_category,
         abc       |-> row.abc,
         ris       |-> row.ris,
         part_no   |-> row.part_no,
         Movement_Category_I     |-> categorize_aging(row.issue, w),
         Movement_Category_P     |-> categorize_aging(row.purchase, w),
         Purchase_Month_Category |-> categorize_by_month(row.purchase, w),
         Is_Dead_Stock           |-> dead_stock_results[1],
         Dead_Stock_Month        |-> dead_stock_results[2]]

\* annotate with today read again, a day later, for the aging buckets.
annotate_today_read_again(row, cols, w) ==
    [annotated(row, cols, w,
               identify_dead_stock(
                   row.purchase, row.issue,
                   IF "last issue qty" \in cols THEN row.issue_qty ELSE Num(0),
                   IF "stock qty" \in cols THEN row.stock ELSE Num(0),
                   w))
     EXCEPT !.Movement_Category_I = categorize_aging(row.issue, periods(w.today + 1)),
            !.Movement_Category_P = categorize_aging(row.purchase, periods(w.today + 1))]

\* df.apply(lambda row: identify_dead_stock(...), axis=1) of lines 247-256 on
\* one row, and the columns made of it.
annotate(row, cols, w) ==
    annotated(row, cols, w,
              identify_dead_stock(
                  row.purchase, row.issue,
                  IF "last issue qty" \in cols THEN row.issue_qty ELSE Num(0),
                  IF "stock qty" \in cols THEN row.stock ELSE Num(0),
                  w))

\* The fields of a row that hold cells of the sheet; the others are the
\* annotations of the load.
CellFields ==
    {"purchase", "issue", "issue_qty", "stock", "gndp", "location",
     "part_category", "abc", "ris", "part_no"}

\* The text df.to_csv writes for a cell: nothing for an empty cell, the text
\* of a text cell, the date of a date cell (a column of dates that are all at
\* midnight is written without the time), the digits of a number.
to_csv_text(cell) ==
    CASE cell.k = "nan" -> <<>>
      [] cell.k = "str" -> cell.s
      [] cell.k = "ts"  -> first10(isoformat(cell.n))
      [] OTHER          -> num_text(cell.n)

\* df.to_csv(output_csv, index=False) on one row (line 288).
to_csv(row) ==
    [f \in DOMAIN row |-> IF f \in CellFields THEN to_csv_text(row[f]) ELSE row[f]]

\* Of the texts pd.read_csv reads as a missing value by default, the ones
\* short enough for a cell of a sheet.
NA_VALUES ==
    {<<>>, <<"n", "/", "a">>, <<"N", "/", "A">>, <<"N", "A">>, <<"n", "a", "n">>,
     <<"N", "a", "N">>, <<"n", "u", "l", "l">>, <<"N", "U", "L", "L">>,
     <<"#", "N", "/", "A">>, <<"#", "N", "A">>, <<"<", "N", "A", ">">>}

\* pd.read_csv infers a numeric column: every text of the column is a
\* missing value or number text.
is_numeric_column(lines, f) ==
    \A i \in 1..Len(lines) :
        \/ lines[i][f] \in NA_VALUES
        \/ is_int_text(lines[i][f]) /\ strip(lines[i][f]) = lines[i][f]

\* What pd.read_csv makes of the text of a cell: a missing value, a number in
\* a numeric column, else the text as it stands.
read_csv_cell(text, numeric) ==
    IF text \in NA_VALUES THEN NaN
    ELSE IF numeric THEN Num(int_text_value(text))
    ELSE Str(text)

\* pd.read_csv(csv_file) (line 1095).
read_csv(lines) ==
    [i \in 1..Len(lines) |->
        [f \in DOMAIN lines[i] |->
            IF f \in CellFields
            THEN read_csv_cell(lines[i][f], is_numeric_column(lines, f))
            ELSE lines[i][f]]]

\* The processed file before the first load of this directory.
no_file == [exists |-> FALSE, lines |-> <<>>]

\* process_excel_to_csv looking for the required columns after the processed
\* file is written.
process_excel_to_csv_late_check ==
    /\ pc = "start"
    /\ IF sheet.file \in {"missing", "unreadable"}
       THEN /\ pc' = "exit"
            /\ UNCHANGED <<win, df, output_csv>>
       ELSE /\ win' = periods(clock)
            /\ df' = [i \in 1..Len(source) |->
                         annotate(source[i], sheet.columns, periods(clock))]
            /\ output_csv' = [exists |-> TRUE,
                              lines  |-> [i \in 1..Len(source) |-> to_csv(df'[i])]]
            /\ pc' = IF {"last issue date", "last purchase date"} \subseteq sheet.columns
                     THEN "loaded" ELSE "exit"
    /\ UNCHANGED <<clock, sheet, source, served_df, requests, resp>>

\* process_excel_to_csv with classifiers that have no try/except: a date cell
\* that is not blank and does not parse raises in df.apply and the load ends.
process_excel_to_csv_unguarded ==
    /\ pc = "start"
    /\ IF sheet.file \in {"missing", "unreadable"}
       THEN /\ pc' = "exit"
            /\ UNCHANGED <<win, df, output_csv>>
       ELSE /\ win' = periods(clock)
            /\ IF \/ ~({"last issue date", "last purchase date"} \subseteq sheet.columns)
                  \/ \E i \in 1..Len(source) :
                         \E cell \in {source[i].purchase, source[i].issue} :
                             ~is_blank(cell) /\ parse_date(cell) = None
               THEN /\ pc' = "exit"
                    /\ UNCHANGED <<df, output_csv>>
               ELSE /\ df' = [i \in 1..Len(source) |->
                                 annotate(source[i], sheet.columns, periods(clock))]
                    /\ output_csv' = [exists |-> TRUE,
                                      lines  |-> [i \in 1..Len(source) |-> to_csv(df'[i])]]
                    /\ pc' = "loaded"
    /\ UNCHANGED <<clock, sheet, source, served_df, requests, resp>>

\* process_excel_to_csv() as called by the module at start-up
\* (lines 1087-1093): a None result ends the process.
process_excel_to_csv ==
    /\ pc = "start"
    /\ IF sheet.file \in {"missing", "unreadable"}
       THEN /\ pc' = "exit"
            /\ UNCHANGED <<win, df, output_csv>>
       ELSE /\ win' = periods(clock)
            /\ IF ~({"last issue date", "last purchase date"} \subseteq sheet.columns)
               THEN /\ pc' = "exit"
                    /\ UNCHANGED <<df, output_csv>>
               ELSE /\ df' = [i \in 1..Len(source) |->
                                 annotate(source[i], sheet.columns, periods(clock))]
                    /\ output_csv' = [exists |-> TRUE,
                                      lines  |-> [i \in 1..Len(source) |-> to_csv(df'[i])]]
                    /\ pc' = "loaded"
    /\ UNCHANGED <<clock, sheet, source, served_df, requests, resp>>

\* The rest of the start-up (lines 1095-1177): the processed file is read
\* back into the module's df and the process starts to serve.
startup ==
    /\ pc = "loaded"
    /\ served_df' = read_csv(output_csv.lines)
    /\ pc' = "serving"
    /\ UNCHANGED <<clock, sheet, source, win, df, output_csv, requests, resp>>

----------------------------------------------------------------------------
(* The filters of the request handlers (apply_filters_vectorized).         *)

\* The five filter arguments and the part number text of a request; <<>> is
\* an argument that is None or ''.
Filters(movement_category, part_category, location, abc_category, ris, part_number) ==
    [movement_category |-> movement_category, part_category |-> part_category,
     location |-> location, abc_category |-> abc_category, ris |-> ris,
     part_number |-> part_number]

no_filters == Filters(<<>>, <<>>, <<>>, <<>>, <<>>, <<>>)

\* The text of the labels of 'Movement Category P (2)'.
LABEL_TEXT ==
    [l \in {"0 to 90 days", "91 to 180 days", "181 to 365 days", "366 to 730 days",
            "730 and above"} |->
        CASE l = "0 to 90 days"    ->
                 <<"0", " ", "t", "o", " ", "9", "0", " ", "d", "a", "y", "s">>
          [] l = "91 to 180 days"  ->
                 <<"9", "1", " ", "t", "o", " ", "1", "8", "0", " ", "d", "a", "y", "s">>
          [] l = "181 to 365 days" ->
                 <<"1", "8", "1", " ", "t", "o", " ", "3", "6", "5", " ", "d", "a", "y", "s">>
          [] l = "366 to 730 days" ->
                 <<"3", "6", "6", " ", "t", "o", " ", "7", "3", "0", " ", "d", "a", "y", "s">>
          [] OTHER ->
                 <<"7", "3", "0", " ", "a", "n", "d", " ", "a", "b", "o", "v", "e">>]

\* text.split(','): the texts between the commas.
split(text) ==
    LET cut == {0, Len(text) + 1} \cup {i \in 1..Len(text) : text[i] = ","}
        next_cut(a) == CHOOSE b \in cut : b > a /\ \A c \in cut : c > a => b <= c
    IN  {SubSeq(text, a + 1, next_cut(a) - 1) : a \in cut \ {Len(text) + 1}}

\* column.isin(values) on one cell: a text cell equal to one of the texts.
isin(cell, values) == cell.k = "str" /\ cell.s \in values

UPPER == <<"A", "B", "C", "D", "E", "F", "G", "H", "I", "J", "K", "L", "M",
           "N", "O", "P", "Q", "R", "S", "T", "U", "V", "W", "X", "Y", "Z">>

LOWER == <<"a", "b", "c", "d", "e", "f", "g", "h", "i", "j", "k", "l", "m",
           "n", "o", "p", "q", "r", "s", "t", "u", "v", "w", "x", "y", "z">>

\* str.lower() on one character.
lower(c) ==
    IF \E i \in 1..26 : UPPER[i] = c
    THEN LOWER[CHOOSE i \in 1..26 : UPPER[i] = c]
    ELSE c

\* re.compile(pat) raises re.error: a '*' with nothing to repeat or after
\* another '*', a '(' that is never closed, a '[' that is never closed.
re_error(pat) ==
    \/ \E i \in 1..Len(pat) :
           pat[i] = "*" /\ (i = 1 \/ pat[i - 1] \in {"*", "("})
    \/ \E i \in 1..Len(pat) :
           pat[i] = "(" /\ ~\E j \in (i + 1)..Len(pat) : pat[j] = ")"
    \/ \E i \in 1..Len(pat) :
           pat[i] = "[" /\ ~\E j \in (i + 2)..Len(pat) : pat[j] = "]"

\* re.match of pat[i..] at s[j], ignoring case, for a pattern of literal
\* characters, '.' (any character) and 'x*' (any number of x).
RECURSIVE re_match_at(_, _, _, _)
re_match_at(pat, i, s, j) ==
    IF i > Len(pat) THEN TRUE
    ELSE LET atom == j <= Len(s) /\ (pat[i] = "." \/ lower(pat[i]) = lower(s[j]))
         IN  IF i < Len(pat) /\ pat[i + 1] = "*"
             THEN \/ re_match_at(pat, i + 2, s, j)
                  \/ atom /\ re_match_at(pat, i, s, j + 1)
             ELSE atom /\ re_match_at(pat, i + 1, s, j + 1)

\* re.search(pat, s, re.IGNORECASE)
re_search(pat, s) == \E j \in 1..(Len(s) + 1) : re_match_at(pat, 1, s, j)

\* column.astype(str).str.contains(pat, case=False, na=False) on one cell:
\* pat is a regular expression (regex=True is the default).
contains(cell, pat) == re_search(pat, str(cell))

\* apply_filters_vectorized without the tests 'column in filtered_df.columns'.
apply_filters_vectorized_any_column(filtered_df, movement_category, part_category, location, abc_category, ris, part_number) ==
    LET by_movement ==
            {i \in filtered_df :
                movement_category # <<>> =>
                    LABEL_TEXT[served_df[i].Movement_Category_P] \in split(movement_category)}
        by_part_category ==
            {i \in by_movement :
                part_category # <<>> =>
                    isin(served_df[i].part_category, split(part_category))}
        by_location ==
            {i \in by_part_category :
                location # <<>> =>
                    isin(served_df[i].location, split(location))}
        by_abc ==
            {i \in by_location :
                abc_category # <<>> =>
                    isin(served_df[i].abc, split(abc_category))}
        by_ris ==
            {i \in by_abc :
                ris # <<>> => isin(served_df[i].ris, split(ris))}
    IN  IF part_number # <<>>
        THEN IF re_error(part_number)
             THEN [raised |-> TRUE, rows |-> {}]
             ELSE [raised |-> FALSE,
                   rows   |-> {i \in by_ris : contains(served_df[i].part_no, part_number)}]
        ELSE [raised |-> FALSE, rows |-> by_ris]

\* The rows of filtered_df (places in the module's df) that pass every filter
\* given, or the re.error of str.contains.
apply_filters_vectorized(filtered_df, movement_category, part_category, location, abc_category, ris, part_number) ==
    LET cols == sheet.columns
        by_movement ==
            {i \in filtered_df :
                movement_category # <<>> =>
                    LABEL_TEXT[served_df[i].Movement_Category_P] \in split(movement_category)}
        by_part_category ==
            {i \in by_movement :
                part_category # <<>> /\ "part category" \in cols =>
                    isin(served_df[i].part_category, split(part_category))}
        by_location ==
            {i \in by_part_category :
                location # <<>> /\ "location" \in cols =>
                    isin(served_df[i].location, split(location))}
        by_abc ==
            {i \in by_location :
                abc_category # <<>> /\ "ABC" \in cols =>
                    isin(served_df[i].abc, split(abc_category))}
        by_ris ==
            {i \in by_abc :
                ris # <<>> /\ "RIS" \in cols => isin(served_df[i].ris, split(ris))}
    IN  IF part_number # <<>> /\ "part no" \in cols
        THEN IF re_error(part_number)
             THEN [raised |-> TRUE, rows |-> {}]
             ELSE [raised |-> FALSE,
                   rows   |-> {i \in by_ris : contains(served_df[i].part_no, part_number)}]
        ELSE [raised |-> FALSE, rows |-> by_ris]

\* apply_filters_vectorized(df.copy(), ...) with the arguments of a request.
filtered(q) ==
    apply_filters_vectorized(DOMAIN served_df, q.movement_category, q.part_category,
                             q.location, q.abc_category, q.ris, q.part_number)

----------------------------------------------------------------------------
(* The dates and the windows of the request handlers.                      *)

NaT == None

is_number_text(tok) == tok # <<>> /\ \A i \in 1..Len(tok) : is_digit(tok[i])

\* pd.Timestamp holds the years 1678 to 2261 whole.
in_timestamp_range(y) == 1678 <= y /\ y <= 2261

\* The Timestamp of a year, a month and a day, NaT for a date that does not
\* exist or that a Timestamp cannot hold.
timestamp_or_NaT(y, m, d) ==
    IF in_timestamp_range(y) /\ valid_ymd(y, m, d) THEN ymd2ord(y, m, d) ELSE NaT

\* The date of three fields of text, as pd.to_datetime reads them.
to_datetime_fields(f) ==
    IF ~\A k \in 1..3 : is_number_text(f[k]) THEN NaT
    ELSE IF Len(f[1]) = 4 /\ Len(f[2]) <= 2 /\ Len(f[3]) <= 2
    THEN timestamp_or_NaT(int_of(f[1]), int_of(f[2]), int_of(f[3]))
    ELSE IF Len(f[3]) = 4 /\ Len(f[1]) <= 2 /\ Len(f[2]) <= 2
    THEN IF int_of(f[1]) > 12
         THEN timestamp_or_NaT(int_of(f[3]), int_of(f[2]), int_of(f[1]))
         ELSE timestamp_or_NaT(int_of(f[3]), int_of(f[1]), int_of(f[2]))
    ELSE NaT

\* pd.to_datetime(text, errors='coerce') on one text of a column whose texts
\* are all of one kind (every release of pandas reads such a column cell by
\* cell alike): year-month-day when the year comes first; with the year last
\* the month is read first (dayfirst=False) unless the first number is above
\* 12; NaT for a date that does not exist and for any other text.
to_datetime(text) ==
    LET seps == {c \in {"/", "-", "."} : fields(text, c) # <<>>}
    IN  IF Cardinality(seps) # 1 THEN NaT
        ELSE to_datetime_fields(fields(text, CHOOSE c \in seps : TRUE))

\* pd.to_datetime(column.astype(str).str[:10], errors='coerce') on one cell
\* (lines 1451-1452, 1492-1493).
cell_date(cell) == to_datetime(first10(str(cell)))

\* One of the six replace(year=year - 1) of lines 1438-1443 raises ValueError;
\* nothing in the handler catches it.
year_ago_raises(w) ==
    \/ replace_year_raises(w.current_month_start)
    \/ replace_year_raises(w.today)
    \/ replace_year_raises(w.last_month_start)
    \/ replace_year_raises(w.last_month_end)
    \/ replace_year_raises(w.last_to_last_month_start)
    \/ replace_year_raises(w.last_to_last_month_end)

\* The end of the month of current_month_last_year_start (lines 1462-1465).
complete_end(current_month_last_year_start) ==
    LET ymd == ord2ymd(current_month_last_year_start)
    IN  IF ymd[2] = 12
        THEN ymd2ord(ymd[1] + 1, 1, 1) - 1
        ELSE ymd2ord(ymd[1], ymd[2] + 1, 1) - 1

\* The year-ago windows of a handler (lines 1438-1443, 1462-1465).
year_ago(w) ==
    [current_month_last_year_start |-> replace_year_back(w.current_month_start),
     current_month_last_year_end   |-> replace_year_back(w.today),
     current_month_last_year_complete_end |->
         complete_end(replace_year_back(w.current_month_start)),
     last_month_last_year_start    |-> replace_year_back(w.last_month_start),
     last_month_last_year_end      |-> replace_year_back(w.last_month_end),
     last_to_last_month_last_year_start |->
         replace_year_back(w.last_to_last_month_start),
     last_to_last_month_last_year_end   |->
         replace_year_back(w.last_to_last_month_end)]

\* The three masks of get_dead_stock_mask on one row (lines 1448-1457).
dead_stock_masks(stock, purchase_dates, issue_dates, date_range_start, date_range_end) ==
    LET stock_mask == stock > 0
        date_range_mask ==
            /\ purchase_dates # NaT
            /\ purchase_dates >= date_range_start
            /\ purchase_dates <= date_range_end
        no_issue_mask ==
            \/ issue_dates = NaT
            \/ purchase_dates # NaT /\ issue_dates < purchase_dates
    IN  stock_mask /\ date_range_mask /\ no_issue_mask

\* get_dead_stock_mask: the rows of df_temp with stock, a purchase date in
\* the range and no issue date or one before the purchase date; no row when
\* the frame has no stock column (the KeyError is caught, line 1458).
get_dead_stock_mask(df_temp, date_range_start, date_range_end) ==
    IF "stock qty" \notin sheet.columns THEN {}
    ELSE {i \in df_temp :
            dead_stock_masks(to_numeric_fillna(served_df[i].stock),
                             cell_date(served_df[i].purchase),
                             cell_date(served_df[i].issue),
                             date_range_start, date_range_end)}

\* The three masks of the last-month liquidation on one row (lines
\* 1490-1498).
liquidation_masks(stock, purchase_dates, issue_dates, w) ==
    LET stock_mask == stock > 0
        old_purchase_mask ==
            /\ purchase_dates # NaT
            /\ purchase_dates < replace_year_back(w.last_month_start)
        last_month_issue_mask ==
            /\ issue_dates # NaT
            /\ issue_dates >= w.last_month_start
            /\ issue_dates <= w.last_month_end
    IN  stock_mask /\ old_purchase_mask /\ last_month_issue_mask

\* The last-month liquidation of lines 1489-1500 and 1787-1797: the rows with
\* stock, bought before last_month_last_year_start and issued in the last
\* month; no row when the frame has no stock column.
last_month_liquidation(filtered_df, w) ==
    IF "stock qty" \notin sheet.columns THEN {}
    ELSE {i \in filtered_df :
            liquidation_masks(to_numeric_fillna(served_df[i].stock),
                              cell_date(served_df[i].purchase),
                              cell_date(served_df[i].issue), w)}

----------------------------------------------------------------------------
(* The request handlers.  A handler works on df.copy() narrowed by the     *)
(* filters; the rows of a frame are named by their places in the module's  *)
(* df.  A handler runs from its request to its answer in one step, and     *)
(* resp holds the answer until it is returned.                             *)

GroupNames ==
    {"current_month_as_on_date", "current_month_complete", "last_month",
     "last_to_last_month", "total", "last_month_liquidation"}

SummaryKeys ==
    {"0 to 90 days", "91 to 180 days", "181 to 365 days", "366 to 730 days",
     "730 and above", "Last to Last Month", "Last Month", "Current Month"}

no_groups == [g \in GroupNames |-> [rows |-> {}, value |-> 0]]

no_summary == [k \in SummaryKeys |-> <<0, 0>>]

\* The answer of a handler: the rows it returns or writes, the windows it
\* derived, its groups of rows with their value sums, its summary totals and
\* its value total.
Response(op, category, q, rows, w, groups, summary, value) ==
    [op |-> op, category |-> category, q |-> q, status |-> "ok", rows |-> rows,
     w |-> w, groups |-> groups, summary |-> summary, value |-> value]

\* An exception that leaves the handler: the request is answered with an
\* error.
Raised(op, category, q, w) ==
    [op |-> op, category |-> category, q |-> q, status |-> "error", rows |-> {},
     w |-> w, groups |-> no_groups, summary |-> no_summary, value |-> 0]

no_response ==
    [op |-> "", category |-> "", q |-> no_filters, status |-> "none", rows |-> {},
     w |-> no_periods, groups |-> no_groups, summary |-> no_summary, value |-> 0]

\* The sum of the GNDP column over the rows of a frame among the first k
\* rows of the module's df.
RECURSIVE sum_upto(_, _)
sum_upto(rows, k) ==
    IF k = 0 THEN 0
    ELSE (IF k \in rows THEN served_df[k].gndp.n ELSE 0) + sum_upto(rows, k - 1)

\* frame[gndp_column].sum()
sum_gndp(rows) == sum_upto(rows, Len(served_df))

\* frame[gndp_column].sum() if gndp_column in frame.columns else 0
value_of(rows) == IF "stock gndp" \in sheet.columns THEN sum_gndp(rows) ELSE 0

\* The rows the summaries group by location (lines 1285-1287): none without
\* a location column, and none of the rows without a location.
located(rows) ==
    IF "location" \in sheet.columns
    THEN {i \in rows : ~isna(served_df[i].location)}
    ELSE {}

\* The total row of get_summary (lines 1310-1327): count and value of every
\* aging bucket and month bucket over the located rows.
total_row(rows) ==
    [k \in SummaryKeys |->
        LET of_key ==
                IF k \in {"Last to Last Month", "Last Month", "Current Month"}
                THEN {i \in located(rows) : served_df[i].Purchase_Month_Category = k}
                ELSE {i \in located(rows) : served_df[i].Movement_Category_P = k}
        IN  <<Cardinality(of_key), value_of(of_key)>>]

\* The grand total of get_location_part_category_summary (lines 1385-1412).
grand_total(rows) ==
    IF "part category" \in sheet.columns
    THEN value_of({i \in located(rows) : ~isna(served_df[i].part_category)})
    ELSE 0

kept == <<clock, pc, sheet, source, win, df, output_csv, requests>>

\* get_data narrowing the module's df itself (global df; df = ...) in place
\* of a copy.
get_data_in_place ==
    /\ pc = "serving"
    /\ resp = no_response
    /\ \E q \in requests :
           LET filtered_df == filtered(q)
               nth(k) == CHOOSE i \in filtered_df.rows :
                             Cardinality({j \in filtered_df.rows : j < i}) = k - 1
           IN  /\ resp' = IF filtered_df.raised THEN Raised("get_data", "", q, no_periods)
                          ELSE Response("get_data", "", q, filtered_df.rows, no_periods,
                                        no_groups, no_summary, 0)
               /\ served_df' = IF filtered_df.raised THEN served_df
                               ELSE [k \in 1..Cardinality(filtered_df.rows) |->
                                        served_df[nth(k)]]
    /\ UNCHANGED kept

\* GET /data (lines 1344-1372), first page.
get_data ==
    /\ pc = "serving"
    /\ resp = no_response
    /\ \E q \in requests :
           LET filtered_df == filtered(q)
           IN  resp' = IF filtered_df.raised THEN Raised("get_data", "", q, no_periods)
                       ELSE Response("get_data", "", q, filtered_df.rows, no_periods,
                                     no_groups, no_summary, 0)
    /\ UNCHANGED served_df
    /\ UNCHANGED kept

\* GET /summary (lines 1272-1329).
get_summary ==
    /\ pc = "serving"
    /\ resp = no_response
    /\ \E q \in requests :
           LET filtered_df == filtered(q)
           IN  resp' = IF filtered_df.raised THEN Raised("get_summary", "", q, no_periods)
                       ELSE Response("get_summary", "", q, filtered_df.rows, no_periods,
                                     no_groups, total_row(filtered_df.rows), 0)
    /\ UNCHANGED served_df
    /\ UNCHANGED kept

\* GET /calculate-gndp (lines 1331-1342).
calculate_gndp ==
    /\ pc = "serving"
    /\ resp = no_response
    /\ \E q \in requests :
           LET filtered_df == filtered(q)
           IN  resp' = IF filtered_df.raised
                       THEN Raised("calculate_gndp", "", q, no_periods)
                       ELSE Response("calculate_gndp", "", q, filtered_df.rows, no_periods,
                                     no_groups, no_summary,
                                     value_of(filtered_df.rows))
    /\ UNCHANGED served_df
    /\ UNCHANGED kept

\* GET /location-part-category-summary (lines 1374-1418).
get_location_part_category_summary ==
    /\ pc = "serving"
    /\ resp = no_response
    /\ \E q \in requests :
           LET filtered_df == filtered(q)
           IN  resp' = IF filtered_df.raised
                       THEN Raised("get_location_part_category_summary", "", q, no_periods)
                       ELSE Response("get_location_part_category_summary", "", q,
                                     filtered_df.rows, no_periods, no_groups,
                                     no_summary, grand_total(filtered_df.rows))
    /\ UNCHANGED served_df
    /\ UNCHANGED kept

\* The count and the value of a group of rows (lines 1502-1524).
group(rows) == [rows |-> rows, value |-> value_of(rows)]

\* The six groups of get_dead_stock_summary (lines 1461-1500), w the periods
\* and y the year-ago windows of the request.
dead_stock_groups(filtered_df, w, y) ==
    [g \in GroupNames |->
        CASE g = "current_month_as_on_date" ->
                 group(get_dead_stock_mask(filtered_df, y.current_month_last_year_start,
                                           y.current_month_last_year_end))
          [] g = "current_month_complete" ->
                 group(get_dead_stock_mask(filtered_df, y.current_month_last_year_start,
                                           y.current_month_last_year_complete_end))
          [] g = "last_month" ->
                 group(get_dead_stock_mask(filtered_df, y.last_month_last_year_start,
                                           y.last_month_last_year_end))
          [] g = "last_to_last_month" ->
                 group(get_dead_stock_mask(filtered_df,
                                           y.last_to_last_month_last_year_start,
                                           y.last_to_last_month_last_year_end))
          [] g = "total" ->
                 group({i \in filtered_df : served_df[i].Is_Dead_Stock = TRUE})
          [] OTHER -> group(last_month_liquidation(filtered_df, w))]

\* The answer of get_dead_stock_summary to the request q, filtered_df the
\* frame left by the filters and w the periods of the request.
dead_stock_summary(q, filtered_df, w) ==
    IF filtered_df.raised \/ year_ago_raises(w)
    THEN Raised("get_dead_stock_summary", "", q,
                IF filtered_df.raised THEN no_periods ELSE w)
    ELSE Response("get_dead_stock_summary", "", q, filtered_df.rows, w,
                  dead_stock_groups(filtered_df.rows, w, year_ago(w)), no_summary, 0)

\* GET /dead-stock-summary (lines 1420-1527): today and the windows are
\* derived from the clock of the request.
get_dead_stock_summary ==
    /\ pc = "serving"
    /\ resp = no_response
    /\ \E q \in requests : resp' = dead_stock_summary(q, filtered(q), periods(clock))
    /\ UNCHANGED served_df
    /\ UNCHANGED kept

\* GET /download-csv (lines 1529-1553): the rows written to the report.
download_csv ==
    /\ pc = "serving"
    /\ resp = no_response
    /\ \E q \in requests :
           LET filtered_df == filtered(q)
           IN  resp' = IF filtered_df.raised THEN Raised("download_csv", "", q, no_periods)
                       ELSE Response("download_csv", "", q, filtered_df.rows, no_periods,
                                     no_groups, no_summary, 0)
    /\ UNCHANGED served_df
    /\ UNCHANGED kept

DeadStockCategories == {"current_month_complete", "last_month", "last_to_last_month", "all"}

\* The rows of a category (lines 1728-1756), y the year-ago windows of the
\* request.
result_df(filtered_df, dead_stock_category, y) ==
    CASE dead_stock_category = "current_month_complete" ->
             get_dead_stock_mask(filtered_df, y.current_month_last_year_start,
                                 y.current_month_last_year_complete_end)
      [] dead_stock_category = "last_month" ->
             get_dead_stock_mask(filtered_df, y.last_month_last_year_start,
                                 y.last_month_last_year_end)
      [] dead_stock_category = "last_to_last_month" ->
             get_dead_stock_mask(filtered_df, y.last_to_last_month_last_year_start,
                                 y.last_to_last_month_last_year_end)
      [] OTHER ->
             {i \in filtered_df : served_df[i].Is_Dead_Stock = TRUE}

\* The answer of download_dead_stock_csv to the request q for a category,
\* filtered_df the frame left by the filters and w the periods of the request.
dead_stock_csv(q, dead_stock_category, filtered_df, w) ==
    IF filtered_df.raised \/ year_ago_raises(w)
    THEN Raised("download_dead_stock_csv", dead_stock_category, q,
                IF filtered_df.raised THEN no_periods ELSE w)
    ELSE Response("download_dead_stock_csv", dead_stock_category, q,
                  result_df(filtered_df.rows, dead_stock_category, year_ago(w)),
                  w, no_groups, no_summary, 0)

\* GET /download-dead-stock-csv (lines 1691-1768): the rows written to the
\* report for a category.
download_dead_stock_csv ==
    /\ pc = "serving"
    /\ resp = no_response
    /\ \E q \in requests, dead_stock_category \in DeadStockCategories :
           resp' = dead_stock_csv(q, dead_stock_category, filtered(q), periods(clock))
    /\ UNCHANGED served_df
    /\ UNCHANGED kept

\* The answer of download_last_month_liquidation_csv to the request q,
\* filtered_df the frame left by the filters and w the periods of the request.
liquidation_csv(q, filtered_df, w) ==
    IF filtered_df.raised
    THEN Raised("download_last_month_liquidation_csv", "", q, no_periods)
    ELSE Response("download_last_month_liquidation_csv", "", q,
                  last_month_liquidation(filtered_df.rows, w), w,
                  no_groups, no_summary, 0)

\* GET /download-last-month-liquidation-csv (lines 1770-1812): only
\* last_month_start is set back a year here, and day 1 never raises.
download_last_month_liquidation_csv ==
    /\ pc = "serving"
    /\ resp = no_response
    /\ \E q \in requests : resp' = liquidation_csv(q, filtered(q), periods(clock))
    /\ UNCHANGED served_df
    /\ UNCHANGED kept

\* The answer of the handler is returned to the client; the next request is
\* taken after it.
reply ==
    /\ pc = "serving"
    /\ resp # no_response
    /\ resp' = no_response
    /\ UNCHANGED served_df
    /\ UNCHANGED kept

MaxDaysServed == 1    \* the days the process serves after its load

\* A day passes while the process serves: datetime.now() of the next request
\* is a day later.
tick ==
    /\ pc = "serving"
    /\ clock < win.today + MaxDaysServed
    /\ clock' = clock + 1
    /\ UNCHANGED <<pc, sheet, source, win, df, output_csv, served_df, requests, resp>>

----------------------------------------------------------------------------
(* The sheets the load is run on.                                          *)

TodaySpan == 125      \* todays: the first days of a leap year
NextYearSpan == 10    \* and the days from 25 February of the year after it
PurchaseSpan == 97    \* purchase dates around the year-ago windows
MonthSpan == 95       \* purchase dates around the month windows
PeriodSpan == 800     \* todays for the windows alone

TodaySet ==
    {ymd2ord(2024, 1, 1) + i : i \in 0..(TodaySpan - 1)}
    \cup {ymd2ord(2025, 2, 25) + i : i \in 0..(NextYearSpan - 1)}

AllColumns == {"last issue date", "last purchase date", "last issue qty", "stock qty"}

\* 'dd/mm/YYYY', the sheet's own date text.
text_dmy(ord) ==
    LET ymd == ord2ymd(ord)
    IN  Str(two_digits(ymd[3]) \o <<"/">> \o two_digits(ymd[2]) \o <<"/">>
            \o four_digits(ymd[1]))

Sheet(f, cols) == [file |-> f, columns |-> cols]

\* A row with its four filter columns and its part number.
Record(p, i, s, g, loc, cat, abc, ris, no) ==
    [purchase |-> p, issue |-> i, issue_qty |-> NaN, stock |-> s, gndp |-> g,
     location |-> loc, part_category |-> cat, abc |-> abc, ris |-> ris,
     part_no |-> no]

Row(p, i, s) == Record(p, i, s, NaN, NaN, NaN, NaN, NaN, NaN)

NoDateCells == {NaN, Str(<<"-">>), Str(<<" ", " ">>), Str(<<"n", "/", "a">>),
                Str(<<"3", "1", "/", "0", "2", "/", "2", "0", "2", "3">>)}

StockCells == {NaN, Num(0), Num(0 - 1), Num(5), Str(<<"5">>), Str(<<"n", "i", "l">>)}

ThresholdDays == {0 - 1, 0, 90, 91, 180, 181, 365, 366, 730, 731}

IssueCells(c) ==
    NoDateCells \cup {text_dmy(c - 365), text_dmy(c - 366), text_dmy(c + 1),
                      Timestamp(c - 30), Timestamp(c - 400)}

\* Rows for the dead-stock evaluation with the clock at c.
DeadRows(c) ==
    \* every stock cell with every issue cell
    {Row(p, i, s) : p \in {NaN, text_dmy(c - 370)}, i \in IssueCells(c), s \in StockCells}
    \cup
    \* dead records with a purchase date on every day around the year-ago windows
    {Row(text_dmy(c - 363 - k), NaN, Num(5)) : k \in 0..PurchaseSpan}
    \cup
    {Row(p, i, Num(5)) : p \in {Timestamp(c - 366), Timestamp(c - 400)} \cup NoDateCells,
                         i \in {text_dmy(c - 366), Timestamp(c - 900)}}

\* Rows for the aging and month buckets with the clock at c.
AgingRows(c) ==
    \* issue and purchase dates on both sides of every aging threshold
    {Row(text_dmy(c - a), text_dmy(c - b), Num(5)) :
        a \in ThresholdDays, b \in ThresholdDays}
    \cup
    \* purchase dates on every day around the month windows
    {Row(text_dmy(c + 2 - k), NaN, Num(5)) : k \in 0..MonthSpan}
    \cup
    {Row(p, i, Num(5)) : p \in NoDateCells \cup {Timestamp(c - 91)},
                         i \in NoDateCells \cup {Timestamp(c - 90)}}

FewRows(c) ==
    {Row(p, i, s) : p \in {NaN, text_dmy(c - 370)}, i \in {NaN, text_dmy(c - 10)},
                    s \in {Num(0), Num(5)}}

\* A sheet of one row with all its columns, one without one of its columns,
\* or no readable sheet at all.
InitWith(rows) ==
    /\ clock \in TodaySet
    /\ pc = "start"
    /\ win = no_periods
    /\ df = <<>>
    /\ output_csv = no_file
    /\ served_df = <<>>
    /\ requests = {}
    /\ resp = no_response
    /\ \/ /\ sheet = Sheet("ok", AllColumns)
          /\ source \in {<<r>> : r \in rows[clock]}
       \/ /\ sheet \in {Sheet("ok", AllColumns \ {x}) : x \in AllColumns}
          /\ source \in {<<r>> : r \in FewRows(clock)}
       \/ /\ sheet \in {Sheet("missing", {}), Sheet("unreadable", {})}
          /\ source = <<>>

Init == InitWith([c \in TodaySet |-> DeadRows(c)])

InitAging == InitWith([c \in TodaySet |-> AgingRows(c)])

InitPeriod ==
    /\ clock \in {ymd2ord(2023, 12, 1) + i : i \in 0..(PeriodSpan - 1)}
    /\ pc = "start"
    /\ win = no_periods
    /\ df = <<>>
    /\ output_csv = no_file
    /\ served_df = <<>>
    /\ requests = {}
    /\ resp = no_response
    /\ sheet = Sheet("ok", AllColumns)
    /\ source \in {<<Row(NaN, NaN, Num(5))>>, <<>>}

\* Date texts for parse_date: two numbers and a year around a separator in
\* both orders, with and without a time of day or a blank before them.
DayMonthTokens ==
    {<<"1">>, <<"5">>, <<"0", "5">>, <<"0", "6">>, <<"1", "2">>, <<"1", "3">>,
     <<"2", "9">>, <<"3", "0">>, <<"3", "1">>, <<"3", "2">>, <<"0">>, <<" ", "5">>}

YearTokens == {<<"2", "0", "2", "3">>, <<"2", "0", "2", "4">>}

TimeOfDay == <<" ", "0", "0", ":", "0", "0", ":", "0", "0">>

ParseCells ==
    LET dates == {a \o <<sep>> \o b \o <<sep>> \o y :
                     a \in DayMonthTokens, b \in DayMonthTokens, y \in YearTokens,
                     sep \in {"/", "-", "."}}
                 \cup
                 {y \o <<"-">> \o a \o <<"-">> \o b :
                     a \in DayMonthTokens, b \in DayMonthTokens, y \in YearTokens}
    IN  {Str(s) : s \in dates}
        \cup {Str(s \o TimeOfDay) : s \in {d \in dates : Len(d) >= 9}}
        \cup {Str(<<" ">> \o s) : s \in {d \in dates : Len(d) >= 9}}
        \cup NoDateCells
        \cup {Timestamp(ymd2ord(2024, 6, 5)), Num(45000), Str(<<>>), Str(<<" ">>)}

InitParse ==
    /\ clock \in {ymd2ord(2024, 6, 15), ymd2ord(2024, 7, 1)}
    /\ pc = "start"
    /\ win = no_periods
    /\ df = <<>>
    /\ output_csv = no_file
    /\ served_df = <<>>
    /\ requests = {}
    /\ resp = no_response
    /\ sheet = Sheet("ok", AllColumns)
    /\ source \in {<<Row(p, NaN, Num(5))>> : p \in ParseCells}

Next == process_excel_to_csv

Spec == Init /\ [][Next]_vars

SpecParse == InitParse /\ [][Next]_vars

SpecAging == InitAging /\ [][Next]_vars

SpecPeriod == InitPeriod /\ [][Next]_vars

----------------------------------------------------------------------------
(* The sheets the process serves from.                                     *)

Columns ==
    AllColumns \cup {"stock gndp", "location", "part category", "ABC", "RIS", "part no"}

RequiredColumns == {"last issue date", "last purchase date"}

WindowSpan == 96      \* purchase dates around the year-ago windows of a request
IssueSpan == 64       \* issue dates around the last month of a request

\* Days on which the process is started: mid-month, the last day of a month,
\* the day before a 29 February, a day in the March of a leap year, the last
\* days of a year.
AppTodays ==
    {ymd2ord(2024, 6, 15), ymd2ord(2024, 6, 30), ymd2ord(2024, 2, 28),
     ymd2ord(2024, 3, 15), ymd2ord(2023, 12, 31), ymd2ord(2025, 1, 31)}

\* 'YYYY-MM-DD'
text_iso(ord) == Str(first10(isoformat(ord)))

\* Rows for the dead-stock windows and the liquidation with the clock at c.
AppRows(c) ==
    \* never issued, bought on every day around the year-ago windows
    {Row(text_dmy(c - 360 - k), NaN, Num(5)) : k \in 0..WindowSpan}
    \cup
    \* bought two years ago, issued on every day around the last month
    {Row(text_dmy(c - 800), text_dmy(c + 1 - k), Num(1)) : k \in 0..IssueSpan}
    \cup
    {Row(p, i, s) :
        p \in {text_dmy(c - 380), text_iso(c - 380), Timestamp(c - 380), NaN,
               Str(<<"n", "/", "a">>)},
        i \in {NaN, Str(<<"-">>), text_dmy(c - 390), text_dmy(c - 370), text_iso(c - 20),
               Timestamp(c - 20)},
        s \in {Num(5), Num(0), NaN}}
    \cup
    {Row(p, i, Num(5)) :
        p \in {text_dmy(c - 500), text_iso(c - 800), Timestamp(c - 800)},
        i \in {text_iso(c - 20), Timestamp(c - 40), text_dmy(c - 20), NaN}}
    \cup
    \* bought 355 days ago, issued five days before that
    {Row(Timestamp(c - 355), Timestamp(c - 360), Num(5))}
    \cup
    \* bought two years ago, issued 385 days ago
    {Row(text_dmy(c - 800), text_dmy(c - 385), Num(1))}

\* Two rows of one sheet.
AppPairs(c) ==
    {<<Row(Timestamp(c - 365), Timestamp(c - 365), Num(5)),
       Row(Timestamp(c - 366), Timestamp(c - 366), Num(5))>>,
     <<Row(Timestamp(c - 90), Timestamp(c - 180), Num(5)),
       Row(Timestamp(c - 91), Timestamp(c - 181), Num(0))>>,
     <<Row(Timestamp(c - 800), Timestamp(c - 20), Num(1)),
       Row(Timestamp(c - 370), NaN, Num(2))>>}

InitApp ==
    /\ clock \in AppTodays
    /\ pc = "start"
    /\ win = no_periods
    /\ df = <<>>
    /\ output_csv = no_file
    /\ served_df = <<>>
    /\ requests = {no_filters}
    /\ resp = no_response
    /\ sheet = Sheet("ok", AllColumns)
    /\ source \in {<<r>> : r \in AppRows(clock)} \cup AppPairs(clock)

Text1(a) == Str(<<a>>)

\* Rows with a location, a part category, an ABC class, a RIS code, a part
\* number and a value, bought 10 or 100 days before the clock at c.
FilterRows(c) ==
    <<Record(text_dmy(c - 10), NaN, Num(5), Num(3), Text1("P"), Text1("X"),
             Text1("A"), Text1("R"), Str(<<"A", "B", "1">>)),
      Record(text_dmy(c - 100), NaN, Num(5), Num(4), Text1("Q"), Text1("Y"),
             Text1("B"), Text1("S"), Str(<<"a", "b", ".", "2">>)),
      Record(text_dmy(c - 10), text_dmy(c - 5), Num(5), Num(5), Text1("P"), Text1("Y"),
             Text1("A"), NaN, NaN),
      Record(text_dmy(c - 100), NaN, Num(0), Num(6), NaN, Text1("X"),
             Text1("B"), Text1("R"), Str(<<"X", "A", "B", "1">>))>>

\* Rows of a sheet whose RIS codes are numbers.
NumberRows(c) ==
    <<Record(text_dmy(c - 10), NaN, Num(5), Num(3), Text1("P"), Text1("X"),
             Text1("A"), Num(1), Str(<<"A", "B", "1">>)),
      Record(text_dmy(c - 100), NaN, Num(5), Num(4), Text1("Q"), Text1("Y"),
             Text1("B"), Num(2), Str(<<"a", "b", ".", "2">>))>>

FilterSheets(c) ==
    {<<FilterRows(c)[i]>> : i \in 1..4}
    \cup {NumberRows(c)}
    \cup {<<FilterRows(c)[i[1]], FilterRows(c)[i[2]]>> :
              i \in {p \in (1..4) \X (1..4) : p[1] < p[2]}}
    \cup {FilterRows(c)}

Days90 == LABEL_TEXT["0 to 90 days"]

Days180 == LABEL_TEXT["91 to 180 days"]

\* The requests of the clients: no filter, one filter, a list in a filter,
\* several filters, and part number texts.
FilterRequests ==
    {no_filters,
     Filters(Days90, <<>>, <<>>, <<>>, <<>>, <<>>),
     Filters(Days90 \o <<",">> \o Days180, <<>>, <<>>, <<>>, <<>>, <<>>),
     Filters(<<>>, <<"X">>, <<>>, <<>>, <<>>, <<>>),
     Filters(<<>>, <<>>, <<"P">>, <<>>, <<>>, <<>>),
     Filters(<<>>, <<>>, <<"P", ",", "Q">>, <<>>, <<>>, <<>>),
     Filters(<<>>, <<>>, <<"Z">>, <<>>, <<>>, <<>>),
     Filters(<<>>, <<>>, <<>>, <<"A">>, <<>>, <<>>),
     Filters(<<>>, <<>>, <<>>, <<>>, <<"R">>, <<>>),
     Filters(<<>>, <<>>, <<>>, <<>>, <<"1">>, <<>>),
     Filters(<<>>, <<>>, <<"P">>, <<>>, <<"1", ",", "2">>, <<>>),
     Filters(<<>>, <<"Y">>, <<"P">>, <<>>, <<>>, <<>>),
     Filters(Days180, <<"X", ",", "Y">>, <<"Q">>, <<"B">>, <<"S">>, <<>>),
     Filters(<<>>, <<>>, <<"P">>, <<"A">>, <<>>, <<"a", "b">>),
     Filters(<<>>, <<>>, <<>>, <<>>, <<>>, <<"a", "b">>),
     Filters(<<>>, <<>>, <<>>, <<>>, <<>>, <<"A", "B", "1">>),
     Filters(<<>>, <<>>, <<>>, <<>>, <<>>, <<"b", ".">>),
     Filters(<<>>, <<>>, <<>>, <<>>, <<>>, <<".">>),
     Filters(<<>>, <<>>, <<>>, <<>>, <<>>, <<"1", "*">>),
     Filters(<<>>, <<>>, <<>>, <<>>, <<>>, <<"*">>),
     Filters(<<>>, <<>>, <<>>, <<>>, <<>>, <<"(">>),
     Filters(<<>>, <<>>, <<>>, <<>>, <<>>, <<"[">>),
     Filters(<<>>, <<>>, <<>>, <<>>, <<>>, <<"a", "n">>)}

\* A processed file left by an earlier run.
old_file ==
    [exists |-> TRUE,
     lines  |-> <<[purchase |-> <<"0", "1", "/", "0", "1", "/", "2", "0", "2", "3">>,
                   issue |-> <<>>, issue_qty |-> <<>>, stock |-> <<"5">>, gndp |-> <<"7">>,
                   location |-> <<"P">>, part_category |-> <<"X">>, abc |-> <<"A">>,
                   ris |-> <<"R">>, part_no |-> <<"A", "B", "1">>,
                   Movement_Category_I     |-> "730 and above",
                   Movement_Category_P     |-> "366 to 730 days",
                   Purchase_Month_Category |-> "730 and above",
                   Is_Dead_Stock           |-> TRUE,
                   Dead_Stock_Month        |-> "Earlier"]>>]

\* A sheet with every column, a sheet without one of its columns (a required
\* one or an optional one), or no readable sheet; with or without a
\* processed file of an earlier run.
InitFilters ==
    /\ clock \in {ymd2ord(2024, 6, 15)}
    /\ pc = "start"
    /\ win = no_periods
    /\ df = <<>>
    /\ served_df = <<>>
    /\ requests \in {{q} : q \in FilterRequests}
    /\ resp = no_response
    /\ \/ /\ sheet \in {Sheet("ok", Columns)}
                       \cup {Sheet("ok", Columns \ {x}) : x \in Columns \ RequiredColumns}
          /\ source \in FilterSheets(clock)
          /\ output_csv = no_file
       \/ /\ sheet \in {Sheet("ok", Columns \ {x}) : x \in RequiredColumns}
                       \cup {Sheet("missing", {}), Sheet("unreadable", {})}
          /\ source \in IF sheet.file = "ok" THEN FilterSheets(clock) ELSE {<<>>}
          /\ output_csv \in {no_file, old_file}

\* The process: the load, the rest of the start-up, then the handlers in any
\* order while the days pass.
NextApp ==
    \/ process_excel_to_csv
    \/ startup
    \/ get_data
    \/ get_summary
    \/ calculate_gndp
    \/ get_location_part_category_summary
    \/ get_dead_stock_summary
    \/ download_csv
    \/ download_dead_stock_csv
    \/ download_last_month_liquidation_csv
    \/ reply
    \/ tick

SpecApp == InitApp /\ [][NextApp]_vars

SpecFilters == InitFilters /\ [][NextApp]_vars

----------------------------------------------------------------------------
(* What the claims say of a loaded row.                                    *)

Loaded == pc = "loaded"

Rows == IF Loaded THEN {df[i] : i \in 1..Len(df)} ELSE {}

\* The stock quantity of a row as the claims read it: 0 for a sheet with no
\* stock column, for an empty cell and for text that is no number.
StockQty(r) ==
    IF "stock qty" \notin sheet.columns THEN 0
    ELSE CASE r.stock.k = "num" -> r.stock.n
           [] r.stock.k = "str" /\ is_int_text(r.stock.s) -> int_text_value(r.stock.s)
           [] OTHER -> 0

\* The date a cell holds, None when it is missing, '-', blank or unparseable.
DateOf(cell) == parse_date(cell)

HasDate(cell) == DateOf(cell) # None

DaysSince(cell) == win.today - DateOf(cell)

Result(r) == <<r.Is_Dead_Stock, r.Dead_Stock_Month>>

\* C1: a record whose stock quantity is <= 0, missing or non-numeric is
\* (False, 'Not Dead Stock (No Stock)') whatever its issue and purchase cells
\* and whatever today is.
C1_NoStock ==
    \A r \in Rows :
        StockQty(r) <= 0 => Result(r) = <<FALSE, "Not Dead Stock (No Stock)">>

\* A stockless record with an old issue date and a year-old purchase date,
\* which the date rules alone would call dead.
C1_Witness ==
    \E r \in Rows :
        /\ r.stock = Num(0)
        /\ HasDate(r.issue) /\ DaysSince(r.issue) > 365
        /\ HasDate(r.purchase)
        /\ Result(r) = <<FALSE, "Not Dead Stock (No Stock)">>

\* C2: a record with stock > 0 whose issue date parses and lies at most 365
\* days before today (365 itself and future dates included) is
\* (False, 'Not Dead Stock (Recent Issue)') whatever its purchase cell; at 366
\* days it is not 'Recent Issue'.
C2_RecentIssue ==
    \A r \in Rows :
        (StockQty(r) > 0 /\ HasDate(r.issue)) =>
            /\ DaysSince(r.issue) <= 365 =>
                   Result(r) = <<FALSE, "Not Dead Stock (Recent Issue)">>
            /\ DaysSince(r.issue) = 366 =>
                   r.Dead_Stock_Month # "Not Dead Stock (Recent Issue)"

\* A stocked record issued exactly 365 days ago.
C2_Witness ==
    \E r \in Rows :
        /\ StockQty(r) > 0 /\ HasDate(r.issue) /\ DaysSince(r.issue) = 365
        /\ Result(r) = <<FALSE, "Not Dead Stock (Recent Issue)">>

\* C3: is_dead is True exactly when stock > 0 and the issue date is missing,
\* unparseable or more than 365 days before today; a dead record with a
\* missing or unparseable purchase date is labelled 'Earlier'.
C3_DeadExactly ==
    \A r \in Rows :
        /\ r.Is_Dead_Stock <=>
               (StockQty(r) > 0 /\ (~HasDate(r.issue) \/ DaysSince(r.issue) > 365))
        /\ (r.Is_Dead_Stock /\ ~HasDate(r.purchase)) => r.Dead_Stock_Month = "Earlier"

\* A stocked record with unparseable issue text and no purchase date.
C3_Witness ==
    \E r \in Rows :
        /\ StockQty(r) > 0
        /\ r.issue.k = "str" /\ ~is_blank(r.issue) /\ ~HasDate(r.issue)
        /\ ~HasDate(r.purchase)
        /\ Result(r) = <<TRUE, "Earlier">>

\* C4 (scenario A of the specification): with today = 2024-03-15, stock 5,
\* no issue date and purchase text '01/03/2023' the result is
\* (True, 'Current Month').
C4_ScenarioA ==
    \A r \in Rows :
        ( /\ win.today = ymd2ord(2024, 3, 15)
          /\ r.stock = Num(5)
          /\ r.issue = NaN
          /\ r.purchase = Str(<<"0", "1", "/", "0", "3", "/", "2", "0", "2", "3">>) )
        => Result(r) = <<TRUE, "Current Month">>

IsFeb29(ord) == month_of(ord) = 2 /\ day_of(ord) = 29

\* None of the six window boundaries of the load is a 29 February.
NoLeapBoundary ==
    \A b \in {win.today, win.current_month_start, win.last_month_start,
              win.last_month_end, win.last_to_last_month_start,
              win.last_to_last_month_end} : ~IsFeb29(b)

\* The same month and day one year earlier.
YearBefore(ord) == ymd2ord(year_of(ord) - 1, month_of(ord), day_of(ord))

Between(lo, x, hi) == lo <= x /\ x <= hi

ExpectedWindow(p) ==
    IF Between(YearBefore(win.current_month_start), p, YearBefore(win.today))
    THEN "Current Month"
    ELSE IF Between(YearBefore(win.last_month_start), p, YearBefore(win.last_month_end))
    THEN "Last Month"
    ELSE IF Between(YearBefore(win.last_to_last_month_start), p,
                    YearBefore(win.last_to_last_month_end))
    THEN "Last to Last Month"
    ELSE "Earlier"

\* C5: when no window boundary is a 29 February, a dead record with a
\* parseable purchase date p is labelled by the first year-ago window that
\* holds p (current month to date, last month, last-to-last month), else
\* 'Earlier'.
C5_WindowLabel ==
    \A r \in Rows :
        (NoLeapBoundary /\ r.Is_Dead_Stock /\ HasDate(r.purchase)) =>
            r.Dead_Stock_Month = ExpectedWindow(DateOf(r.purchase))

\* A dead record bought on the as-on-date end of the current-month window.
C5_Witness ==
    \E r \in Rows :
        /\ NoLeapBoundary /\ r.Is_Dead_Stock /\ HasDate(r.purchase)
        /\ DateOf(r.purchase) = YearBefore(win.today)
        /\ r.Dead_Stock_Month = "Current Month"

DeadLabels == {"Current Month", "Last Month", "Last to Last Month", "Earlier"}

NotDeadLabels == {"Not Dead Stock (No Stock)", "Not Dead Stock (Recent Issue)"}

\* C6: after a load every record has a label, and the flag is True exactly
\* for the four window labels and False exactly for the two 'Not Dead Stock'
\* labels.
C6_LabelAgreesWithFlag ==
    \A r \in Rows :
        /\ r.Dead_Stock_Month \in DeadLabels \cup NotDeadLabels
        /\ r.Is_Dead_Stock = TRUE <=> r.Dead_Stock_Month \in DeadLabels
        /\ r.Is_Dead_Stock = FALSE <=> r.Dead_Stock_Month \in NotDeadLabels

\* A recently issued record whose purchase date lies in a year-ago window.
C6_Witness ==
    \E r \in Rows :
        /\ HasDate(r.purchase) /\ DaysSince(r.purchase) = 370
        /\ r.Is_Dead_Stock = FALSE
        /\ r.Dead_Stock_Month = "Not Dead Stock (Recent Issue)"

AgingLabels ==
    <<"0 to 90 days", "91 to 180 days", "181 to 365 days", "366 to 730 days",
      "730 and above">>

\* The bucket the specification gives a number of elapsed days.
ExpectedAging(days) ==
    CASE days <= 90  -> AgingLabels[1]
      [] days > 90 /\ days <= 180  -> AgingLabels[2]
      [] days > 180 /\ days <= 365 -> AgingLabels[3]
      [] days > 365 /\ days <= 730 -> AgingLabels[4]
      [] OTHER -> AgingLabels[5]

AgingAsClaimed(cell, label) ==
    /\ \E k \in 1..5 : label = AgingLabels[k]
    /\ label = IF HasDate(cell) THEN ExpectedAging(DaysSince(cell)) ELSE AgingLabels[5]

\* C7: categorize_aging gives '730 and above' to a missing, '-', blank or
\* unparseable date and otherwise the bucket of days = today - date with
\* inclusive upper bounds 90, 180, 365, 730 (negative days in '0 to 90 days').
C7_AgingBuckets ==
    \A r \in Rows :
        /\ AgingAsClaimed(r.issue, r.Movement_Category_I)
        /\ AgingAsClaimed(r.purchase, r.Movement_Category_P)

\* A purchase date exactly 180 days old, and an issue date in the future.
C7_Witness ==
    \E r \in Rows :
        /\ HasDate(r.purchase) /\ DaysSince(r.purchase) = 180
        /\ r.Movement_Category_P = "91 to 180 days"
        /\ HasDate(r.issue) /\ DaysSince(r.issue) < 0
        /\ r.Movement_Category_I = "0 to 90 days"

Rank(label) == CHOOSE k \in 1..5 : AgingLabels[k] = label

\* C8: of two parseable dates of one load, the one with fewer elapsed days
\* never gets a later aging bucket.
C8_Monotone ==
    \A r \in Rows :
        (HasDate(r.issue) /\ HasDate(r.purchase)) =>
            /\ DaysSince(r.issue) < DaysSince(r.purchase) =>
                   Rank(r.Movement_Category_I) <= Rank(r.Movement_Category_P)
            /\ DaysSince(r.purchase) < DaysSince(r.issue) =>
                   Rank(r.Movement_Category_P) <= Rank(r.Movement_Category_I)

\* Dates one day apart on the two sides of the 90-day bound.
C8_Witness ==
    \E r \in Rows :
        /\ HasDate(r.issue) /\ HasDate(r.purchase)
        /\ DaysSince(r.issue) = 90 /\ DaysSince(r.purchase) = 91
        /\ Rank(r.Movement_Category_I) = 1 /\ Rank(r.Movement_Category_P) = 2

ExpectedMonth(cell) ==
    IF ~HasDate(cell) THEN "730 and above"
    ELSE LET d == DateOf(cell)
         IN  IF d >= win.current_month_start THEN "Current Month"
             ELSE IF Between(win.last_month_start, d, win.last_month_end)
             THEN "Last Month"
             ELSE IF Between(win.last_to_last_month_start, d, win.last_to_last_month_end)
             THEN "Last to Last Month"
             ELSE ExpectedAging(win.today - d)

\* C9: categorize_by_month gives '730 and above' to a missing or unparseable
\* date, else 'Current Month' from current_month_start on, else 'Last Month'
\* or 'Last to Last Month' inside those windows, else the aging bucket of
\* today - date.
C9_MonthBuckets ==
    \A r \in Rows : r.Purchase_Month_Category = ExpectedMonth(r.purchase)

\* A purchase on the first day of the current month.
C9_Witness ==
    \E r \in Rows :
        /\ HasDate(r.purchase) /\ DateOf(r.purchase) = win.current_month_start
        /\ win.today > win.current_month_start
        /\ r.Purchase_Month_Category = "Current Month"

MonthIndex(ord) == year_of(ord) * 12 + month_of(ord)

WholeMonth(first, last) ==
    /\ day_of(first) = 1
    /\ MonthIndex(first) = MonthIndex(last)
    /\ last - first + 1 = days_in_month(year_of(first), month_of(first))

\* C10: for every today, current_month_start is day 1 of today's month,
\* last_month_end and last_to_last_month_end are the days before the next
\* window's start, and the two past windows are the two whole calendar
\* months before today's month: adjacent and pairwise disjoint.
C10_Windows ==
    pc # "start" /\ sheet.file = "ok" =>
        /\ ord2ymd(win.current_month_start) = <<year_of(win.today), month_of(win.today), 1>>
        /\ win.last_month_end = win.current_month_start - 1
        /\ win.last_to_last_month_end = win.last_month_start - 1
        /\ WholeMonth(win.last_month_start, win.last_month_end)
        /\ WholeMonth(win.last_to_last_month_start, win.last_to_last_month_end)
        /\ MonthIndex(win.last_month_start) = MonthIndex(win.today) - 1
        /\ MonthIndex(win.last_to_last_month_start) = MonthIndex(win.today) - 2
        /\ win.last_to_last_month_start <= win.last_to_last_month_end
        /\ win.last_to_last_month_end < win.last_month_start
        /\ win.last_month_start <= win.last_month_end
        /\ win.last_month_end < win.current_month_start
        /\ win.current_month_start <= win.today

\* A load in January: both past windows lie in the year before.
C10_Witness ==
    /\ pc = "loaded"
    /\ month_of(win.today) = 1
    /\ ord2ymd(win.last_month_start) = <<year_of(win.today) - 1, 12, 1>>
    /\ ord2ymd(win.last_to_last_month_end) = <<year_of(win.today) - 1, 11, 30>>

----------------------------------------------------------------------------
(* What the claims say of parse_date.                                      *)

\* The date of the first of the five formats, in the order of the
\* specification, that reads the text.
FirstReading(s) ==
    LET readings == <<strptime(s, "/", 1, 2, 3), strptime(s, "-", 1, 2, 3),
                      strptime(s, "-", 3, 2, 1), strptime(s, "/", 2, 1, 3),
                      strptime(s, ".", 1, 2, 3)>>
    IN  IF \A k \in 1..5 : readings[k] = None THEN None
        ELSE readings[CHOOSE k \in 1..5 :
                          readings[k] # None /\ \A j \in 1..(k - 1) : readings[j] = None]

\* A text a/b/yyyy of digits alone, at most ten characters long.
IsSlashDate(cell) ==
    /\ cell.k = "str" /\ Len(cell.s) <= 10
    /\ LET f == fields(cell.s, "/")
       IN  /\ f # <<>>
           /\ is_number_text(f[1]) /\ Len(f[1]) <= 2
           /\ is_number_text(f[2]) /\ Len(f[2]) <= 2
           /\ is_number_text(f[3]) /\ Len(f[3]) = 4

SlashA(cell) == int_of(fields(cell.s, "/")[1])
SlashB(cell) == int_of(fields(cell.s, "/")[2])
SlashY(cell) == int_of(fields(cell.s, "/")[3])

\* C11: parse_date is None for an empty cell, '-' and blank text; else it is
\* the date of the first of d/m/Y, d-m-Y, Y-m-d, m/d/Y, d.m.Y that reads the
\* first ten characters, or None; so a/b/yyyy with b a month and a a day of
\* that month is read day first, and month first only when the day-first
\* reading is no date.
C11_ParseOrder ==
    \A r \in Rows :
        LET cell == r.purchase
        IN  /\ (isna(cell) \/ cell = Str(<<"-">>) \/ strip(str(cell)) = <<>>)
                   => parse_date(cell) = None
            /\ ~(isna(cell) \/ cell = Str(<<"-">>) \/ strip(str(cell)) = <<>>)
                   => parse_date(cell) = FirstReading(strip(first10(str(cell))))
            /\ IsSlashDate(cell) =>
                   IF valid_ymd(SlashY(cell), SlashB(cell), SlashA(cell))
                   THEN parse_date(cell) = ymd2ord(SlashY(cell), SlashB(cell), SlashA(cell))
                   ELSE IF valid_ymd(SlashY(cell), SlashA(cell), SlashB(cell))
                   THEN parse_date(cell) = ymd2ord(SlashY(cell), SlashA(cell), SlashB(cell))
                   ELSE parse_date(cell) = None

\* '05/06/2024', which both slash formats read, is read as 5 June 2024.
C11_Witness ==
    \E r \in Rows :
        /\ r.purchase = Str(<<"0", "5", "/", "0", "6", "/", "2", "0", "2", "4">>)
        /\ parse_date(r.purchase) = ymd2ord(2024, 6, 5)
        /\ parse_date(r.purchase) # ymd2ord(2024, 5, 6)

----------------------------------------------------------------------------
(* What the claims say of the queries on dates.                            *)

DeadStockOps == {"get_dead_stock_summary", "download_dead_stock_csv"}

\* The stock quantity of a record as a number.
StockOf(i) == to_numeric_fillna(df[i].stock)

\* The purchase date and the issue date of a record as the load reads them.
PurchaseOf(i) == parse_date(df[i].purchase)

IssueOf(i) == parse_date(df[i].issue)

\* The liquidation of the last month as claimed, over the rows the filters
\* leave, with the periods w.
LiquidationAsClaimed(rows, w) ==
    {i \in rows :
        /\ StockOf(i) > 0
        /\ PurchaseOf(i) # None
        /\ PurchaseOf(i) < replace_year_back(w.last_month_start)
        /\ IssueOf(i) # None
        /\ w.last_month_start <= IssueOf(i)
        /\ IssueOf(i) <= w.last_month_end}

\* C12: the last-month liquidation of the summary and of the export is
\* exactly the filtered records with stock above 0, a purchase date before
\* last_month_start a year back and an issue date within the last month, the
\* dates being the dates parse_date reads and the periods those of the
\* request.
C12_Liquidation ==
    /\ resp.status = "ok" /\ resp.op = "download_last_month_liquidation_csv" =>
           resp.rows = LiquidationAsClaimed(filtered(resp.q).rows, resp.w)
    /\ resp.status = "ok" /\ resp.op = "get_dead_stock_summary" =>
           resp.groups["last_month_liquidation"].rows =
               LiquidationAsClaimed(resp.rows, resp.w)

\* today = 2024-06-15 and a record issued on '06/05/2024' (6 May 2024, in the
\* last month) is missing from the export.
C12_FailingInput ==
    /\ resp.status = "ok" /\ resp.op = "download_last_month_liquidation_csv"
    /\ resp.w.today = ymd2ord(2024, 6, 15)
    /\ Len(df) = 1
    /\ df[1].issue = Str(<<"0", "6", "/", "0", "5", "/", "2", "0", "2", "4">>)
    /\ StockOf(1) > 0
    /\ PurchaseOf(1) # None /\ PurchaseOf(1) < ymd2ord(2023, 5, 1)
    /\ IssueOf(1) = ymd2ord(2024, 5, 6)
    /\ resp.rows = {}

\* The dead stock of a window as claimed, over the rows the filters leave.
InWindowAsClaimed(rows, window_start, window_end) ==
    {i \in rows :
        /\ PurchaseOf(i) # None
        /\ window_start <= PurchaseOf(i)
        /\ PurchaseOf(i) <= window_end
        /\ (IssueOf(i) = None \/ IssueOf(i) < PurchaseOf(i))}

\* The window of a group of the summary or of a category of the export, y the
\* year-ago windows of the request.
WindowStart(g, y) ==
    CASE g \in {"current_month_as_on_date", "current_month_complete"} ->
             y.current_month_last_year_start
      [] g = "last_month" -> y.last_month_last_year_start
      [] OTHER -> y.last_to_last_month_last_year_start

WindowEnd(g, y) ==
    CASE g = "current_month_as_on_date" -> y.current_month_last_year_end
      [] g = "current_month_complete" -> y.current_month_last_year_complete_end
      [] g = "last_month" -> y.last_month_last_year_end
      [] OTHER -> y.last_to_last_month_last_year_end

WindowGroups ==
    {"current_month_as_on_date", "current_month_complete", "last_month",
     "last_to_last_month"}

\* C13: a window group of the summary and a window category of the export
\* hold exactly the filtered records with a purchase date in the window and an
\* issue date that is missing or before the purchase date, whatever their
\* other attributes; the dates are the dates parse_date reads.
C13_DeadStockInWindow ==
    /\ resp.status = "ok" /\ resp.op = "get_dead_stock_summary" =>
           \A g \in WindowGroups :
               resp.groups[g].rows =
                   InWindowAsClaimed(resp.rows, WindowStart(g, year_ago(resp.w)),
                                     WindowEnd(g, year_ago(resp.w)))
    /\ resp.status = "ok" /\ resp.op = "download_dead_stock_csv"
           /\ resp.category \in WindowGroups =>
           resp.rows =
               InWindowAsClaimed(filtered(resp.q).rows,
                                 WindowStart(resp.category, year_ago(resp.w)),
                                 WindowEnd(resp.category, year_ago(resp.w)))

\* today = 2024-06-15 and a record with stock, never issued, bought on
\* '05/06/2023' (5 June 2023) is counted in the last month of a year ago and
\* not in the current month of a year ago.
C13_FailingInput ==
    /\ resp.status = "ok" /\ resp.op = "get_dead_stock_summary"
    /\ resp.w.today = ymd2ord(2024, 6, 15)
    /\ Len(df) = 1
    /\ df[1].purchase = Str(<<"0", "5", "/", "0", "6", "/", "2", "0", "2", "3">>)
    /\ df[1].issue = NaN
    /\ StockOf(1) > 0
    /\ PurchaseOf(1) = ymd2ord(2023, 6, 5)
    /\ resp.groups["last_month"].rows = {1}
    /\ resp.groups["current_month_as_on_date"].rows = {}
    /\ resp.groups["current_month_complete"].rows = {}

\* A record without stock, never issued and bought inside the window is not
\* in the group.
C13_NoStock ==
    /\ resp.status = "ok" /\ resp.op = "get_dead_stock_summary"
    /\ Len(df) = 1
    /\ StockOf(1) = 0
    /\ df[1].purchase.k = "ts"
    /\ df[1].issue = NaN
    /\ 1 \in InWindowAsClaimed({1}, WindowStart("last_month", year_ago(resp.w)),
                                WindowEnd("last_month", year_ago(resp.w)))
    /\ resp.groups["last_month"].rows = {}

----------------------------------------------------------------------------
(* What the claims say of the filters.                                     *)

\* The answers that hold the rows left by the filters.
FilteredOps ==
    {"get_data", "get_summary", "calculate_gndp", "get_location_part_category_summary",
     "get_dead_stock_summary", "download_csv"}

\* The value of a record in a column, as the text that stands in the sheet.
ValueOf(i, f) == to_csv_text(df[i][f])

\* A dimension is satisfied: nothing is asked of it, or the value of the
\* record is one of the values listed.  Nothing can be asked of a column the
\* sheet does not have.
Satisfied(i, f, column, listed) ==
    listed # <<>> /\ column \in sheet.columns =>
        ~isna(df[i][f]) /\ ValueOf(i, f) \in split(listed)

SatisfiedAll(i, q) ==
    /\ q.movement_category # <<>> =>
           LABEL_TEXT[df[i].Movement_Category_P] \in split(q.movement_category)
    /\ Satisfied(i, "part_category", "part category", q.part_category)
    /\ Satisfied(i, "location", "location", q.location)
    /\ Satisfied(i, "abc", "ABC", q.abc_category)
    /\ Satisfied(i, "ris", "RIS", q.ris)

\* C14: the filters leave exactly the records that satisfy every dimension
\* supplied (here the five dimensions given as lists, in no order), all the
\* records when none is supplied.
C14_Filters ==
    resp.status = "ok" /\ resp.op \in FilteredOps /\ resp.q.part_number = <<>> =>
        resp.rows = {i \in DOMAIN df : SatisfiedAll(i, resp.q)}

\* The same for the sheets whose codes are text.
C14_TextColumns ==
    resp.status = "ok" /\ resp.op \in FilteredOps /\ resp.q.part_number = <<>>
        /\ (\A i \in DOMAIN df : df[i].ris.k # "num") =>
        resp.rows = {i \in DOMAIN df : SatisfiedAll(i, resp.q)}

\* Two records with the RIS codes 1 and 2 and the request ris=1: no record
\* is returned.
C14_FailingInput ==
    /\ resp.status = "ok" /\ resp.op = "get_data"
    /\ resp.q = Filters(<<>>, <<>>, <<>>, <<>>, <<"1">>, <<>>)
    /\ "RIS" \in sheet.columns
    /\ Len(df) = 2
    /\ df[1].ris = Num(1)
    /\ resp.rows = {}

\* Several dimensions, one of them a list, leave some records and not all.
C14_Witness ==
    /\ resp.status = "ok" /\ resp.op = "get_data"
    /\ resp.q = Filters(Days180, <<"X", ",", "Y">>, <<"Q">>, <<"B">>, <<"S">>, <<>>)
    /\ sheet.columns = Columns
    /\ Len(df) = 4
    /\ resp.rows = {2}

\* text holds q as a run of characters, letter case aside.
HoldsLiteral(text, q) ==
    \E j \in 0..(Len(text) - Len(q)) :
        \A k \in 1..Len(q) : lower(text[j + k]) = lower(q[k])

\* The request asks for a part number text and nothing else.
PartNumberOnly(q) ==
    /\ q.part_number # <<>>
    /\ q = Filters(<<>>, <<>>, <<>>, <<>>, <<>>, q.part_number)

\* C15: for every part number text of a request, the filter keeps exactly the
\* records whose part number holds the text as it stands, letter case aside.
C15_PartNumber ==
    resp.op \in {"get_data", "download_csv"} /\ PartNumberOnly(resp.q)
        /\ "part no" \in sheet.columns =>
        /\ resp.status = "ok"
        /\ resp.rows = {i \in DOMAIN df :
                           ~isna(df[i].part_no)
                           /\ HoldsLiteral(ValueOf(i, "part_no"), resp.q.part_number)}

\* The request part_number=. keeps the record with the part number 'AB1'.
C15_FailingInput ==
    /\ resp.status = "ok" /\ resp.op = "get_data"
    /\ resp.q = Filters(<<>>, <<>>, <<>>, <<>>, <<>>, <<".">>)
    /\ "part no" \in sheet.columns
    /\ Len(df) = 1
    /\ df[1].part_no = Str(<<"A", "B", "1">>)
    /\ resp.rows = {1}

\* The request part_number=( is answered with an error.
C15_Raises ==
    /\ resp.status = "error" /\ resp.op = "get_data"
    /\ resp.q = Filters(<<>>, <<>>, <<>>, <<>>, <<>>, <<"(">>)

\* The request part_number=an keeps a record without a part number.
C15_Missing ==
    /\ resp.status = "ok" /\ resp.op = "get_data"
    /\ resp.q = Filters(<<>>, <<>>, <<>>, <<>>, <<>>, <<"a", "n">>)
    /\ \E i \in resp.rows : isna(df[i].part_no)

\* A text of letters and digits keeps the records that hold it, letter case
\* aside, and no other.
C15_Plain ==
    /\ resp.status = "ok" /\ resp.op = "get_data"
    /\ resp.q = Filters(<<>>, <<>>, <<>>, <<>>, <<>>, <<"a", "b">>)
    /\ Len(df) = 4
    /\ resp.rows = {1, 2, 4}

----------------------------------------------------------------------------
(* What the claims say of the columns of the sheet.                        *)

MissingRequired == sheet.file = "ok" /\ ~(RequiredColumns \subseteq sheet.columns)

\* C16: when the sheet lacks the issue date column or the purchase date
\* column, the load ends the process and leaves the annotations and the
\* processed file as they were; the process never serves and never answers.
C16_MissingRequired ==
    /\ [][MissingRequired /\ pc = "start" =>
              /\ pc' = "exit"
              /\ df' = df
              /\ output_csv' = output_csv
              /\ served_df' = served_df]_vars
    /\ [](MissingRequired =>
              /\ pc \in {"start", "exit"}
              /\ df = <<>>
              /\ served_df = <<>>
              /\ resp = no_response)

\* The load has failed on a sheet without a required column, and the
\* processed file of an earlier run is still there.
C16_Witness ==
    /\ MissingRequired
    /\ source # <<>>
    /\ pc = "exit"
    /\ output_csv = old_file

OptionalAbsent ==
    /\ sheet.file = "ok"
    /\ RequiredColumns \subseteq sheet.columns
    /\ sheet.columns # Columns

\* The request without what it asks of columns the sheet does not have.
Without(q) ==
    [movement_category |-> q.movement_category,
     part_category |-> IF "part category" \in sheet.columns THEN q.part_category ELSE <<>>,
     location      |-> IF "location" \in sheet.columns THEN q.location ELSE <<>>,
     abc_category  |-> IF "ABC" \in sheet.columns THEN q.abc_category ELSE <<>>,
     ris           |-> IF "RIS" \in sheet.columns THEN q.ris ELSE <<>>,
     part_number   |-> IF "part no" \in sheet.columns THEN q.part_number ELSE <<>>]

\* Every value sum of an answer is 0.
NoValue(r) ==
    /\ r.value = 0
    /\ \A g \in GroupNames : r.groups[g].value = 0
    /\ \A k \in SummaryKeys : r.summary[k][2] = 0

\* C17: on a sheet without one of the optional columns the load succeeds and
\* no request is answered with an error that it would not get with the column
\* (the part number text that does not compile is the only error here);
\* without the stock column every record is (False, 'Not Dead Stock (No
\* Stock)'); without the GNDP column every value sum is 0; and what a request
\* asks of a column that is absent changes nothing in the rows it gets.
C17_OptionalAbsent ==
    OptionalAbsent =>
        /\ pc # "exit"
        /\ resp.status = "error" =>
               "part no" \in sheet.columns /\ re_error(resp.q.part_number)
        /\ "stock qty" \notin sheet.columns =>
               \A i \in DOMAIN df :
                   /\ df[i].Is_Dead_Stock = FALSE
                   /\ df[i].Dead_Stock_Month = "Not Dead Stock (No Stock)"
        /\ "stock gndp" \notin sheet.columns /\ resp.status = "ok" => NoValue(resp)
        /\ resp.status = "ok" /\ resp.op \in FilteredOps =>
               resp.rows = filtered(Without(resp.q)).rows

\* On a sheet without the location column, the request location=P gets every
\* record of the sheet.
C17_Witness ==
    /\ OptionalAbsent
    /\ "location" \notin sheet.columns
    /\ resp.status = "ok" /\ resp.op = "get_data"
    /\ resp.q = Filters(<<>>, <<>>, <<"P">>, <<>>, <<>>, <<>>)
    /\ Len(df) = 4
    /\ resp.rows = 1..4

\* On a sheet without the stock column the records with stock in their rows
\* are not dead stock, and the summary has no record in its windows.
C17_NoStockColumn ==
    /\ "stock qty" \notin sheet.columns
    /\ resp.status = "ok" /\ resp.op = "get_dead_stock_summary"
    /\ Len(df) = 4
    /\ \A g \in GroupNames : resp.groups[g].rows = {}

\* On a sheet without the GNDP column the total of the records is 0.
C17_NoValueColumn ==
    /\ "stock gndp" \notin sheet.columns
    /\ resp.status = "ok" /\ resp.op = "calculate_gndp"
    /\ resp.rows = 1..4
    /\ resp.value = 0

----------------------------------------------------------------------------
(* What the claims say of today.                                           *)

\* The record is annotated against the periods w.
AnnotatedAgainst(i, w) ==
    /\ df[i].Movement_Category_I = categorize_aging(source[i].issue, w)
    /\ df[i].Movement_Category_P = categorize_aging(source[i].purchase, w)
    /\ df[i].Purchase_Month_Category = categorize_by_month(source[i].purchase, w)
    /\ <<df[i].Is_Dead_Stock, df[i].Dead_Stock_Month>> =
           identify_dead_stock(
               source[i].purchase, source[i].issue,
               IF "last issue qty" \in sheet.columns THEN source[i].issue_qty ELSE Num(0),
               IF "stock qty" \in sheet.columns THEN source[i].stock ELSE Num(0), w)

\* C18: after a load, the two aging buckets, the month bucket and the dead
\* stock flag and label of every record are those of one today, the day of
\* the load, whatever the clock shows since.
C18_SingleToday ==
    pc \in {"loaded", "serving"} =>
        /\ win = periods(win.today)
        /\ win.today <= clock
        /\ Len(df) = Len(source)
        /\ \A i \in DOMAIN df : AnnotatedAgainst(i, win)

\* Two records bought 90 and 91 days before the load are in two buckets, and
\* still are the day after.
C18_Witness ==
    /\ pc = "serving"
    /\ clock = win.today + 1
    /\ Len(df) = 2
    /\ df[1].purchase = Timestamp(win.today - 90)
    /\ df[2].purchase = Timestamp(win.today - 91)
    /\ df[1].Movement_Category_P = "0 to 90 days"
    /\ df[2].Movement_Category_P = "91 to 180 days"

WindowOps ==
    {"get_dead_stock_summary", "download_dead_stock_csv",
     "download_last_month_liquidation_csv"}

\* C19: the periods a dead stock summary, a dead stock export or a
\* liquidation export works with are the periods of the load that made the
\* annotations, whatever the clock shows when the request comes.
C19_LoadWindows ==
    resp.op \in WindowOps /\ resp.w # no_periods => resp.w = win

\* The load was on 2024-06-30 and the summary is asked for on 2024-07-01: a
\* record bought on 15 June 2023 is labelled dead stock of the current month
\* and counted in the last month.
C19_FailingInput ==
    /\ win.today = ymd2ord(2024, 6, 30)
    /\ clock = ymd2ord(2024, 7, 1)
    /\ resp.status = "ok" /\ resp.op = "get_dead_stock_summary"
    /\ resp.w.today = ymd2ord(2024, 7, 1)
    /\ Len(df) = 1
    /\ PurchaseOf(1) = ymd2ord(2023, 6, 15)
    /\ df[1].Is_Dead_Stock = TRUE
    /\ df[1].Dead_Stock_Month = "Current Month"
    /\ resp.groups["total"].rows = {1}
    /\ resp.groups["last_month"].rows = {1}
    /\ resp.groups["current_month_complete"].rows = {}

----------------------------------------------------------------------------
(* What the claims say of the record set while requests are served.        *)

\* The answer to a request run alone on the record set the process holds
\* now, with the periods w.
RunAlone(op, category, q, w) ==
    CASE op = "get_dead_stock_summary" -> dead_stock_summary(q, filtered(q), w)
      [] op = "download_dead_stock_csv" -> dead_stock_csv(q, category, filtered(q), w)
      [] op = "download_last_month_liquidation_csv" -> liquidation_csv(q, filtered(q), w)
      [] OTHER ->
             IF filtered(q).raised THEN Raised(op, "", q, no_periods)
             ELSE Response(op, "", q, filtered(q).rows, no_periods, no_groups,
                           IF op = "get_summary"
                           THEN total_row(filtered(q).rows) ELSE no_summary,
                           CASE op = "calculate_gndp" -> value_of(filtered(q).rows)
                             [] op = "get_location_part_category_summary" ->
                                    grand_total(filtered(q).rows)
                             [] OTHER -> 0)

\* C20: while requests are served, in any number and order, the record set
\* of the process stays the one the load produced, cells and annotations
\* alike, and every answer is the answer the request gets when it is run
\* alone on that set.
C20_Snapshot ==
    /\ [][pc = "serving" =>
              /\ served_df' = served_df
              /\ df' = df
              /\ output_csv' = output_csv]_vars
    /\ [](pc = "serving" =>
              /\ Len(df) = Len(source)
              /\ \A i \in DOMAIN df : df[i] = annotate(source[i], sheet.columns, win)
              /\ output_csv.lines = [i \in DOMAIN df |-> to_csv(df[i])]
              /\ served_df = read_csv(output_csv.lines)
              /\ resp # no_response =>
                     resp = RunAlone(resp.op, resp.category, resp.q, resp.w))

\* A day into the serving, a request for two locations is answered with
\* three of the four records the process holds.
C20_Witness ==
    /\ pc = "serving"
    /\ Len(served_df) = 4
    /\ clock = win.today + 1
    /\ resp.status = "ok" /\ resp.op = "download_csv"
    /\ resp.q = Filters(<<>>, <<>>, <<"P", ",", "Q">>, <<>>, <<>>, <<>>)
    /\ resp.rows = {1, 2, 3}

----------------------------------------------------------------------------
(* Sheets of several records, some of them with malformed cells.           *)

\* Days of a load: mid-month, a 29 February, a day in the March of a leap
\* year, a day in the March after a leap year.
BatchTodays ==
    {ymd2ord(2024, 6, 15), ymd2ord(2024, 2, 29), ymd2ord(2024, 3, 31),
     ymd2ord(2025, 3, 15)}

\* Well-formed records with the clock at c.
GoodRows(c) ==
    {Row(text_dmy(c - 10), text_dmy(c - 5), Num(5)),
     Row(text_dmy(c - 370), text_dmy(c - 400), Num(5)),
     Row(Timestamp(c - 100), NaN, Num(2))}

\* Records with a missing, '-', blank or unparseable date cell in both date
\* columns, with and without a quantity that is no number.
MalformedRows ==
    {Row(p, i, s) : p \in NoDateCells, i \in NoDateCells,
                    s \in {NaN, Num(5), Str(<<"n", "i", "l">>)}}
    \cup
    {[Row(p, NaN, Str(<<"n", "i", "l">>)) EXCEPT !.issue_qty = Str(<<"-">>)] :
        p \in NoDateCells}

InitBatch ==
    /\ clock \in BatchTodays
    /\ pc = "start"
    /\ win = no_periods
    /\ df = <<>>
    /\ output_csv = no_file
    /\ served_df = <<>>
    /\ requests = {}
    /\ resp = no_response
    /\ sheet = Sheet("ok", AllColumns)
    /\ source \in {<<g, m>> : g \in GoodRows(clock), m \in MalformedRows}
                  \cup {<<m, g>> : g \in GoodRows(clock), m \in MalformedRows}
                  \cup {<<g>> : g \in GoodRows(clock)}

SpecBatch == InitBatch /\ [][Next]_vars

MonthLabels == {"Current Month", "Last Month", "Last to Last Month"}

\* C21: whatever the cells of the records are (missing, '-', blank,
\* unparseable text, a quantity that is no number), the load goes through,
\* every record gets a value for each of its five annotations, and the
\* annotations of a record are those of its own cells and of today: those it
\* gets in a sheet of its own, whatever the cells of the other records are.
C21_Classification ==
    pc # "start" =>
        /\ pc = "loaded"
        /\ Len(df) = Len(source)
        /\ \A i \in DOMAIN df :
               /\ df[i].Movement_Category_I \in DOMAIN LABEL_TEXT
               /\ df[i].Movement_Category_P \in DOMAIN LABEL_TEXT
               /\ df[i].Purchase_Month_Category \in DOMAIN LABEL_TEXT \cup MonthLabels
               /\ df[i].Is_Dead_Stock \in BOOLEAN
               /\ df[i].Dead_Stock_Month \in DeadLabels \cup NotDeadLabels
               /\ df[i] = annotate(source[i], AllColumns, periods(clock))

\* A record with the date '31/02/2023' in both date columns and the stock
\* 'nil' is loaded ahead of a record bought 10 days ago, which is in its
\* bucket all the same.
C21_Witness ==
    /\ pc = "loaded"
    /\ Len(df) = 2
    /\ source[1].purchase = Str(<<"3", "1", "/", "0", "2", "/", "2", "0", "2", "3">>)
    /\ source[1].issue = source[1].purchase
    /\ source[1].stock = Str(<<"n", "i", "l">>)
    /\ df[1].Movement_Category_P = "730 and above"
    /\ df[1].Dead_Stock_Month = "Not Dead Stock (No Stock)"
    /\ source[2].purchase = text_dmy(clock - 10)
    /\ df[2].Movement_Category_P = "0 to 90 days"
    /\ df[2].Dead_Stock_Month = "Not Dead Stock (Recent Issue)"

----------------------------------------------------------------------------
(* What the claims say of the year-ago boundaries.                         *)

\* C22: on every day the dead stock summary and the dead stock export
\* compute the six year-ago boundaries and answer: there is no day, a
\* 29 February or a day whose last month or last-to-last month ends on one,
\* on which they end in an exception.
C22_EveryToday ==
    resp.op \in DeadStockOps /\ filtered(resp.q).raised = FALSE =>
        resp.status = "ok"

\* On 2024-02-29 the summary is asked for without filters and raises.
C22_FailingInput ==
    /\ clock = ymd2ord(2024, 2, 29)
    /\ resp.op = "get_dead_stock_summary"
    /\ resp.q = no_filters
    /\ resp.w.today = ymd2ord(2024, 2, 29)
    /\ resp.status = "error"

\* On 2024-03-15, with a last month that ends on 2024-02-29, the export
\* raises.
C22_LastMonthEnd ==
    /\ clock = ymd2ord(2024, 3, 15)
    /\ resp.op = "download_dead_stock_csv"
    /\ resp.w.last_month_end = ymd2ord(2024, 2, 29)
    /\ resp.status = "error"

\* The year-ago windows that hold the date d, of the three windows y.
WindowsHolding(d, y) ==
    {k \in 1..3 :
        CASE k = 1 -> Between(y.current_month_last_year_start, d,
                              y.current_month_last_year_end)
          [] k = 2 -> Between(y.last_month_last_year_start, d,
                              y.last_month_last_year_end)
          [] k = 3 -> Between(y.last_to_last_month_last_year_start, d,
                              y.last_to_last_month_last_year_end)}

\* C23: on every day on which the year-ago boundaries are defined, every date
\* from the start of the last-to-last month a year ago up to today a year ago
\* lies in exactly one of the three year-ago windows: no date in two, and no
\* date in none.
C23_Gapless ==
    pc = "loaded" /\ ~year_ago_raises(win) =>
        \A d \in (year_ago(win).last_to_last_month_last_year_start)
                 ..(year_ago(win).current_month_last_year_end) :
            Cardinality(WindowsHolding(d, year_ago(win))) = 1

\* On 2025-03-15 the last-month window a year ago ends on 2024-02-28 and the
\* current-month window starts on 2024-03-01: 2024-02-29 is in no window, and
\* a dead record bought on that day is labelled 'Earlier'.
C23_FailingInput ==
    /\ pc = "loaded"
    /\ win.today = ymd2ord(2025, 3, 15)
    /\ ~year_ago_raises(win)
    /\ year_ago(win).last_month_last_year_start = ymd2ord(2024, 2, 1)
    /\ year_ago(win).last_month_last_year_end = ymd2ord(2024, 2, 28)
    /\ year_ago(win).current_month_last_year_start = ymd2ord(2024, 3, 1)
    /\ WindowsHolding(ymd2ord(2024, 2, 29), year_ago(win)) = {}
    /\ dead_stock_month(text_dmy(ymd2ord(2024, 2, 29)), win) = "Earlier"

\* No date is ever in two windows.
C23_Disjoint ==
    pc = "loaded" /\ ~year_ago_raises(win) =>
        \A d \in (year_ago(win).last_to_last_month_last_year_start)
                 ..(year_ago(win).current_month_last_year_end) :
            Cardinality(WindowsHolding(d, year_ago(win))) <= 1

----------------------------------------------------------------------------
(* What the claims say of the label 'Earlier'.                             *)

----------------------------------------------------------------------------
(* What the claims say of the dead stock flag and the buckets.             *)

OldIssueLabels == {"366 to 730 days", "730 and above"}

\* C25: a record with a stock quantity above 0 is dead stock exactly when
\* the aging bucket of its issue date, made in the same load, is
\* '366 to 730 days' or '730 and above'.
C25_DeadIffOldIssue ==
    \A r \in Rows :
        StockQty(r) > 0 => (r.Is_Dead_Stock <=> r.Movement_Category_I \in OldIssueLabels)

\* A record in stock issued 366 days ago is dead and in '366 to 730 days';
\* the load is of a sheet of one record.
C25_Witness ==
    \E r \in Rows :
        /\ StockQty(r) > 0
        /\ HasDate(r.issue) /\ DaysSince(r.issue) = 366
        /\ r.Is_Dead_Stock
        /\ r.Movement_Category_I = "366 to 730 days"

----------------------------------------------------------------------------
(* What the claims say of the window queries and the dead stock flag.      *)

WindowNames ==
    {"current_month_as_on_date", "current_month_complete", "last_month",
     "last_to_last_month"}

\* C26: every record in one of the four window groups of a dead stock
\* summary asked for on the day of the load is flagged dead stock by that
\* load, so no window group counts more records than the total.
C26_WindowsAreDead ==
    (resp.status = "ok" /\ resp.op = "get_dead_stock_summary" /\ resp.w = win) =>
        \A g \in WindowNames :
            /\ \A i \in resp.groups[g].rows : df[i].Is_Dead_Stock = TRUE
            /\ Cardinality(resp.groups[g].rows)
                   <= Cardinality(resp.groups["total"].rows)

\* today = 2024-06-15: a record in stock bought on 2023-06-26 and issued on
\* 2023-06-21, 360 days ago, is not dead stock for the load and is counted in
\* the complete current month of the summary, with a total of 0.
C26_FailingInput ==
    /\ win.today = ymd2ord(2024, 6, 15)
    /\ resp.status = "ok" /\ resp.op = "get_dead_stock_summary" /\ resp.w = win
    /\ Len(df) = 1
    /\ df[1].purchase = Timestamp(ymd2ord(2023, 6, 26))
    /\ df[1].issue = Timestamp(ymd2ord(2023, 6, 21))
    /\ df[1].Is_Dead_Stock = FALSE
    /\ df[1].Dead_Stock_Month = "Not Dead Stock (Recent Issue)"
    /\ resp.groups["current_month_complete"].rows = {1}
    /\ resp.groups["total"].rows = {}

----------------------------------------------------------------------------
(* What the claims say of the dates the queries read.                      *)

\* The date parse_date reads in a cell, as a date of a query: NaT for None.
AsQueryDate(cell) == IF parse_date(cell) = None THEN NaT ELSE parse_date(cell)

\* C27: the window queries and the liquidation query read the purchase date
\* and the issue date of every record as the calendar date parse_date reads in
\* the cell, and as missing exactly when parse_date reads none.
C27_SameDates ==
    pc = "serving" =>
        \A i \in DOMAIN served_df :
            /\ cell_date(served_df[i].purchase) = AsQueryDate(df[i].purchase)
            /\ cell_date(served_df[i].issue) = AsQueryDate(df[i].issue)

\* '05/06/2023' is 5 June 2023 for the annotations and 6 May 2023 for the
\* queries.
C27_FailingInput ==
    /\ pc = "serving"
    /\ Len(df) = 1
    /\ df[1].purchase = Str(<<"0", "5", "/", "0", "6", "/", "2", "0", "2", "3">>)
    /\ parse_date(df[1].purchase) = ymd2ord(2023, 6, 5)
    /\ cell_date(served_df[1].purchase) = ymd2ord(2023, 5, 6)

----------------------------------------------------------------------------
(* What the claims say of the month bucket and the aging bucket.           *)

\* C28 as stated: a record whose purchase month bucket is 'Current Month',
\* 'Last Month' or 'Last to Last Month' has the purchase aging bucket
\* '0 to 90 days'.
C28_MonthWithin90 ==
    \A r \in Rows :
        r.Purchase_Month_Category \in MonthLabels =>
            r.Movement_Category_P = "0 to 90 days"

\* C28 as amended: such a record has the purchase aging bucket '0 to 90 days',
\* except a record bought on the first day of the last-to-last month when
\* that day is 91 days before today, which is in '91 to 180 days'.
C28_MonthWithin91 ==
    \A r \in Rows :
        r.Purchase_Month_Category \in MonthLabels =>
            \/ r.Movement_Category_P = "0 to 90 days"
            \/ /\ r.Movement_Category_P = "91 to 180 days"
               /\ r.Purchase_Month_Category = "Last to Last Month"
               /\ DateOf(r.purchase) = win.last_to_last_month_start
               /\ DaysSince(r.purchase) = 91

\* today = 2024-01-31: a record bought on 2023-11-01 is in the last-to-last
\* month and in '91 to 180 days'.
C28_Witness ==
    \E r \in Rows :
        /\ win.today = ymd2ord(2024, 1, 31)
        /\ DateOf(r.purchase) = ymd2ord(2023, 11, 1)
        /\ r.Purchase_Month_Category = "Last to Last Month"
        /\ r.Movement_Category_P = "91 to 180 days"

----------------------------------------------------------------------------
(* What the claims say of the liquidation and the dead stock flag.         *)

\* The records of the last-month liquidation in the answer resp.
LiquidationRows ==
    CASE resp.op = "download_last_month_liquidation_csv" -> resp.rows
      [] resp.op = "get_dead_stock_summary" -> resp.groups["last_month_liquidation"].rows
      [] OTHER -> {}

\* C29: no record in the last-month liquidation of a summary or an export
\* asked for on the day of the load is flagged dead stock by that load.
C29_LiquidationNotDead ==
    (resp.status = "ok" /\ resp.w = win) =>
        \A i \in LiquidationRows : df[i].Is_Dead_Stock = FALSE

\* today = 2025-01-31: a record in stock issued on '12/01/2024', 385 days
\* ago, is dead stock for the load and is in the liquidation of December 2024.
C29_FailingInput ==
    /\ win.today = ymd2ord(2025, 1, 31)
    /\ resp.status = "ok" /\ resp.w = win
    /\ resp.op = "download_last_month_liquidation_csv"
    /\ Len(df) = 1
    /\ df[1].issue = Str(<<"1", "2", "/", "0", "1", "/", "2", "0", "2", "4">>)
    /\ IssueOf(1) = ymd2ord(2024, 1, 12)
    /\ cell_date(served_df[1].issue) = ymd2ord(2024, 12, 1)
    /\ df[1].Is_Dead_Stock = TRUE
    /\ resp.rows = {1}

\* C30: the purchase month bucket is 'Current Month' exactly when the
\* purchase date parses and is on or after current_month_start, dates after
\* today included; a date before current_month_start is never after today, so
\* the fallback never meets negative days, and a month bucket that is an aging
\* label is the purchase aging bucket of the record.
C30_CurrentMonth ==
    \A r \in Rows :
        /\ r.Purchase_Month_Category = "Current Month" <=>
               (HasDate(r.purchase) /\ DateOf(r.purchase) >= win.current_month_start)
        /\ (HasDate(r.purchase) /\ DateOf(r.purchase) < win.current_month_start) =>
               DaysSince(r.purchase) >= 0
        /\ r.Purchase_Month_Category \in DOMAIN LABEL_TEXT =>
               r.Purchase_Month_Category = r.Movement_Category_P

\* A record bought 365 days ago has the month bucket '181 to 365 days', its
\* aging bucket.
C30_Witness ==
    \E r \in Rows :
        /\ HasDate(r.purchase) /\ DaysSince(r.purchase) = 365
        /\ r.Purchase_Month_Category = "181 to 365 days"
        /\ r.Movement_Category_P = "181 to 365 days"

\* A record with a purchase date two days after today is in 'Current Month'.
C30_Future ==
    \E r \in Rows :
        /\ HasDate(r.purchase) /\ DaysSince(r.purchase) = 0 - 2
        /\ r.Purchase_Month_Category = "Current Month"
        /\ r.Movement_Category_P = "0 to 90 days"

====
